---------------------------- MODULE Spec2Model ----------------------------
(***************************************************************************)
(* Issue normalization and version lifecycle engine of jira-analytics.     *)
(*                                                                         *)
(* JavaScript strings are TLA+ strings (Len, \o, SubSeq on them).          *)
(* A value of type `T | null` is the tuple <<>> (null) or <<v>> (v).       *)
(* A JavaScript number is an exact rational [n |-> numerator, d |-> den].  *)
(***************************************************************************)
EXTENDS Integers, Sequences, FiniteSets, TLC

VARIABLES
    tvIn,       \* parseTimeValue: the argument `value`
    tvOut,      \* parseTimeValue: the returned number | null
    tvPc,       \* "call" before the call, "done" after the return
    versionsTable,  \* public.versions: release name -> description | null
    storedIssues,   \* public.issues: the rows a page or the helper works on
    helper,     \* getOpenVersionsAndFilterIssues: its call and what it returned
    dash,       \* VersionDashboard.fetchVersionData: its open and closed lists
    detail,     \* OperationalDetail: issues, openVersionsList, the two check boxes
    debug,      \* debugVersions: its open and closed lists
    vimp,       \* Import page: versionFile, the state of processVersionImport
    mapper,     \* mapCSVToIssues: its rows, the host it runs on, what it returned
    ver,        \* compareVersions: its arguments a and b, the results for (a, b) and (b, a)
    csvLine,    \* parseCSVLine: its argument line, the fields it returned
    csvText,    \* parseCSV: its argument text, the rows it returned
    date,       \* parseDate: its argument, the host, the result and the result fed back
    db,         \* the store as the Import page sees it: public.issues by key, public.imports
    imp,        \* Import page: the runs of processImport, one per session
    fetch,      \* OperationalDetail: the filters, the fetches in flight, what is shown
    resolver    \* findColumn and findAllColumnsValues called on a row

timeVars == <<tvIn, tvOut, tvPc>>
lifeVars == <<versionsTable, storedIssues, helper, dash, detail, debug>>
vimpVars == <<vimp>>
mapVars == <<mapper>>
vars == <<tvIn, tvOut, tvPc, versionsTable, storedIssues, helper, dash, detail, debug, vimp,
          mapper, ver, csvLine, csvText, date, db, imp, fetch, resolver>>

\* what the actions of one component leave alone
notTime == <<lifeVars, vimpVars, mapVars, ver, csvLine, csvText, date, db, imp, fetch, resolver>>
notLife == <<timeVars, vimpVars, mapVars, ver, csvLine, csvText, date, db, imp, fetch, resolver>>
notVimp == <<timeVars, mapVars, ver, csvLine, csvText, date, db, imp, fetch, resolver>>
notMap == <<timeVars, lifeVars, vimpVars, ver, csvLine, csvText, date, db, imp, fetch, resolver>>
notVer == <<timeVars, lifeVars, vimpVars, mapVars, csvLine, csvText, date, db, imp, fetch, resolver>>
notLine == <<timeVars, lifeVars, vimpVars, mapVars, ver, csvText, date, db, imp, fetch, resolver>>
notCsv == <<timeVars, lifeVars, vimpVars, mapVars, ver, csvLine, date, db, imp, fetch, resolver>>
notDate == <<timeVars, lifeVars, vimpVars, mapVars, ver, csvLine, csvText, db, imp, fetch, resolver>>
notImp == <<timeVars, lifeVars, vimpVars, mapVars, ver, csvLine, csvText, date, fetch, resolver>>
notFetch == <<timeVars, lifeVars, vimpVars, mapVars, ver, csvLine, csvText, date, db, imp, resolver>>
notResolver == <<timeVars, lifeVars, vimpVars, mapVars, ver, csvLine, csvText, date, db, imp, fetch>>

(***************************************************************************)
(* Bounds                                                                  *)
(***************************************************************************)
MaxTimeLen == 3
MaxIssues == 2
MaxVersionRows == 2
MaxRows == 2
MaxVersionLen == 2
MaxLineLen == 4
MaxTextLen == 4
MaxFileRows == 2

(***************************************************************************)
(* Optional values and strings                                             *)
(***************************************************************************)
Null == <<>>
Some(v) == <<v>>
IsNull(o) == o = <<>>
Val(o) == o[1]

Ch(s, i) == IF i >= 1 /\ i <= Len(s) THEN SubSeq(s, i, i) ELSE ""

Digits == {"0", "1", "2", "3", "4", "5", "6", "7", "8", "9"}
WhiteSpace == {" ", "\t", "\n", "\r"}
IsDigit(c) == c \in Digits
IsSpace(c) == c \in WhiteSpace

RECURSIVE StringsUpTo(_, _)
StringsUpTo(chars, n) ==
    IF n = 0 THEN {""}
    ELSE LET S == StringsUpTo(chars, n - 1)
         IN  S \cup {s \o c : s \in S, c \in chars}

\* String.prototype.trim
RECURSIVE TrimLeft(_)
TrimLeft(s) == IF Len(s) > 0 /\ IsSpace(Ch(s, 1)) THEN TrimLeft(SubSeq(s, 2, Len(s))) ELSE s
RECURSIVE TrimRight(_)
TrimRight(s) == IF Len(s) > 0 /\ IsSpace(Ch(s, Len(s))) THEN TrimRight(SubSeq(s, 1, Len(s) - 1)) ELSE s
Trim(s) == TrimRight(TrimLeft(s))

(***************************************************************************)
(* Exact numbers                                                           *)
(***************************************************************************)
Rat(n, d) == [n |-> n, d |-> d]
RInt(k) == Rat(k, 1)
RAdd(a, b) == Rat(a.n * b.d + b.n * a.d, a.d * b.d)
RMulInt(a, k) == Rat(a.n * k, a.d)
RDivInt(a, k) == Rat(a.n, a.d * k)
RNeg(a) == Rat(0 - a.n, a.d)
REq(a, b) == a.n * b.d = b.n * a.d
RGt(a, b) == a.n * b.d > b.n * a.d
RGe(a, b) == a.n * b.d >= b.n * a.d

\* Math.round(x * 100) / 100: Math.round is floor(x + 1/2)
Round2(a) == Rat((200 * a.n + a.d) \div (2 * a.d), 100)

DigitVal(c) == CHOOSE k \in 0..9 : Ch("0123456789", k + 1) = c

RECURSIVE DigitsToNat(_)
DigitsToNat(s) ==
    IF Len(s) = 0 THEN 0
    ELSE 10 * DigitsToNat(SubSeq(s, 1, Len(s) - 1)) + DigitVal(Ch(s, Len(s)))

RECURSIVE Pow10(_)
Pow10(k) == IF k = 0 THEN 1 ELSE 10 * Pow10(k - 1)

\* index of the last character of the maximal digit run starting at i
\* (i - 1 when s[i] is not a digit)
RECURSIVE RunEnd(_, _)
RunEnd(s, i) == IF IsDigit(Ch(s, i)) THEN RunEnd(s, i + 1) ELSE i - 1

\* index of the first character at or after i that is not white space
RECURSIVE SkipSpace(_, _)
SkipSpace(s, i) == IF IsSpace(Ch(s, i)) THEN SkipSpace(s, i + 1) ELSE i


(***************************************************************************)
(* parseFloat (ECMAScript 19.2.4) on strings without exponent or Infinity: *)
(* the longest prefix [+-]? (digits [. digits?] | . digits), or NaN (Null) *)
(***************************************************************************)
ParseFloat(str) ==
    LET s == TrimLeft(str)
        neg == Ch(s, 1) = "-"
        p == IF Ch(s, 1) \in {"+", "-"} THEN 2 ELSE 1
        e1 == RunEnd(s, p)
        hasDot == Ch(s, e1 + 1) = "."
        e2 == IF hasDot THEN RunEnd(s, e1 + 2) ELSE e1
        intLen == e1 - p + 1
        fracLen == IF hasDot THEN e2 - e1 - 1 ELSE 0
        mag == Rat(DigitsToNat(SubSeq(s, p, e1)) * Pow10(fracLen)
                     + DigitsToNat(SubSeq(s, e1 + 2, e2)),
                   Pow10(fracLen))
    IN  IF intLen = 0 /\ fracLen = 0 THEN Null
        ELSE Some(IF neg THEN RNeg(mag) ELSE mag)

(***************************************************************************)
(* String.prototype.match of /(\d+(?:\.\d+)?)\s*[uU]/: capture group 1 of  *)
(* the leftmost match, Null when there is none.  At a start index the      *)
(* digit run, the fraction and the white space are greedy; giving one back *)
(* leaves a digit, a dot or a space in front of the unit letter, so only   *)
(* the greedy split can match.                                             *)
(***************************************************************************)
TokenEndAt(s, i) ==
    LET j == RunEnd(s, i)
    IN  IF Ch(s, j + 1) = "." /\ IsDigit(Ch(s, j + 2)) THEN RunEnd(s, j + 2) ELSE j

TokenMatchesAt(s, i, units) ==
    /\ IsDigit(Ch(s, i))
    /\ Ch(s, SkipSpace(s, TokenEndAt(s, i) + 1)) \in units

TokenMatch(s, units) ==
    LET starts == {i \in 1..Len(s) : TokenMatchesAt(s, i, units)}
    IN  IF starts = {} THEN Null
        ELSE LET i == CHOOSE k \in starts : \A m \in starts : k <= m
             IN  Some(SubSeq(s, i, TokenEndAt(s, i)))

TokenValue(m) == IF IsNull(m) THEN RInt(0) ELSE Val(ParseFloat(Val(m)))

(***************************************************************************)
(* parseTimeValue                                                          *)
(***************************************************************************)
\* the branch taken when parseFloat(trimmed) is a number
NumericBranchGe(numericOnly) ==
    IF RGe(numericOnly, RInt(1000))
    THEN Some(Round2(RDivInt(numericOnly, 3600)))
    ELSE Some(numericOnly)

NumericBranch(numericOnly) ==
    IF RGt(numericOnly, RInt(1000))
    THEN Some(Round2(RDivInt(numericOnly, 3600)))
    ELSE Some(numericOnly)

\* the branch that sums the d, h and m tokens
TokenBranch(trimmed) ==
    LET dayMatch == TokenMatch(trimmed, {"d", "D"})
        hourMatch == TokenMatch(trimmed, {"h", "H"})
        minMatch == TokenMatch(trimmed, {"m", "M"})
        totalHours == RAdd(RAdd(RMulInt(TokenValue(dayMatch), 8), TokenValue(hourMatch)),
                           RDivInt(TokenValue(minMatch), 60))
    IN  IF RGt(totalHours, RInt(0)) THEN Some(Round2(totalHours)) ELSE Null

parseTimeValue(value) ==
    IF IsNull(value) \/ Val(value) = "" \/ Trim(Val(value)) = "" THEN Null
    ELSE LET trimmed == Trim(Val(value))
             numericOnly == ParseFloat(trimmed)
         IN  IF ~IsNull(numericOnly) THEN NumericBranch(Val(numericOnly))
             ELSE TokenBranch(trimmed)

(***************************************************************************)
(* Specification of one call of parseTimeValue                             *)
(***************************************************************************)
TimeChars == {"0", "1", "7", "d", "h", "m", "H", " ", "-", "."}
TimeExamples == {"1h 30m", "2d 4h", "30m", "1H 30M", "4h 2d", "7200", "4", "1000", "1001",
                 "3600", "1000.5", "999.99", "-5", "-7200", "x1h 30m", "0.1m", "0h"}
TimeInputs == {Null} \cup {Some(s) : s \in StringsUpTo(TimeChars, MaxTimeLen) \cup TimeExamples}

TimeInit ==
    /\ tvIn \in TimeInputs
    /\ tvOut = Null
    /\ tvPc = "call"

ParseTimeValueCall ==
    /\ tvPc = "call"
    /\ tvOut' = parseTimeValue(tvIn)
    /\ tvPc' = "done"
    /\ UNCHANGED <<tvIn, notTime>>

TimeNext == ParseTimeValueCall


(***************************************************************************)
(* The store: public.versions (name unique) and public.issues              *)
(***************************************************************************)
ReleaseOrder == <<"V1", "V2", "V3">>
ReleaseNames == {ReleaseOrder[i] : i \in 1..Len(ReleaseOrder)}
DescValues == {Null, Some(""), Some("  "), Some("-"), Some("Shipped")}

\* JavaScript truthiness of a string | null | undefined
Falsy(o) == IsNull(o) \/ Val(o) = ""

\* Map.prototype.get: undefined (here Null) when the key is absent
MapGet(m, k) == IF k \in DOMAIN m THEN m[k] ELSE Null

\* Array.prototype.includes
Includes(seq, x) == \E i \in 1..Len(seq) : seq[i] = x

\* [...new Set(issues.map(i => i.fix_version).filter(Boolean))]
RECURSIVE UniqueVersions(_)
UniqueVersions(issues) ==
    IF Len(issues) = 0 THEN <<>>
    ELSE LET rest == UniqueVersions(SubSeq(issues, 1, Len(issues) - 1))
             fv == issues[Len(issues)].fix_version
         IN  IF Falsy(fv) \/ Includes(rest, Val(fv)) THEN rest ELSE Append(rest, Val(fv))

\* supabase.from('versions').select('name, description').in('name', names),
\* then new Map((versionsData || []).map(v => [v.name, v.description]))
VersionsMapIn(table, names, lookup) ==
    IF lookup = "ok"
    THEN [n \in {m \in DOMAIN table : Includes(names, m)} |-> table[n]]
    ELSE <<>>

\* supabase.from('versions').select('name, description'), then the same Map
VersionsMapAll(table, lookup) == IF lookup = "ok" THEN table ELSE <<>>

(***************************************************************************)
(* getOpenVersionsAndFilterIssues                                          *)
(***************************************************************************)
IsOpenHelperNoTrim(versionsMap, versionName) ==
    LET description == MapGet(versionsMap, versionName)
    IN  Falsy(description)

IsOpenHelper(versionsMap, versionName) ==
    LET description == MapGet(versionsMap, versionName)
    IN  Falsy(description) \/ Trim(Val(description)) = ""

FilterClosedHelperDropsUnversioned(issues, openVersions) ==
    SelectSeq(issues, LAMBDA issue :
        ~Falsy(issue.fix_version) /\ ~Includes(openVersions, Val(issue.fix_version)))

FilterClosedHelper(issues, openVersions) ==
    SelectSeq(issues, LAMBDA issue :
        Falsy(issue.fix_version) \/ ~Includes(openVersions, Val(issue.fix_version)))

\* lookup: "ok" (data returned), "error" (data null), "throw" (the await rejects)
getOpenVersionsAndFilterIssues(issues, table, lookup) ==
    LET uniqueVersions == UniqueVersions(issues)
        versionsMap == VersionsMapIn(table, uniqueVersions, lookup)
        openVersions == SelectSeq(uniqueVersions, LAMBDA v : IsOpenHelper(versionsMap, v))
    IN  IF Len(uniqueVersions) = 0
        THEN [pc |-> "done", lookup |-> "none", issues |-> issues, versionsMap |-> <<>>,
              filteredIssues |-> issues, openVersions |-> <<>>]
        ELSE IF lookup = "throw"
        THEN [pc |-> "done", lookup |-> lookup, issues |-> issues, versionsMap |-> <<>>,
              filteredIssues |-> issues, openVersions |-> <<>>]
        ELSE [pc |-> "done", lookup |-> lookup, issues |-> issues, versionsMap |-> versionsMap,
              filteredIssues |-> FilterClosedHelper(issues, openVersions),
              openVersions |-> openVersions]

HelperIdle == [pc |-> "idle", lookup |-> "none", issues |-> <<>>, versionsMap |-> <<>>,
               filteredIssues |-> <<>>, openVersions |-> <<>>]

HelperCall ==
    /\ helper.pc = "idle"
    /\ \E lookup \in {"ok", "error", "throw"} :
          helper' = getOpenVersionsAndFilterIssues(storedIssues, versionsTable, lookup)
    /\ UNCHANGED <<versionsTable, storedIssues, dash, detail, debug, notLife>>

(***************************************************************************)
(* VersionDashboard.fetchVersionData                                       *)
(***************************************************************************)
IsOpenDashboard(versionsMap, version) ==
    LET got == MapGet(versionsMap, version)
        description == IF Falsy(got) THEN Null ELSE got
    IN  Falsy(description) \/ Trim(Val(description)) = ""

\* the keys of versionMap, in insertion order: the issues come from
\* .not('fix_version', 'is', null)
RECURSIVE DashboardVersions(_)
DashboardVersions(issues) ==
    IF Len(issues) = 0 THEN <<>>
    ELSE LET rest == DashboardVersions(SubSeq(issues, 1, Len(issues) - 1))
             fv == issues[Len(issues)].fix_version
         IN  IF IsNull(fv) \/ Includes(rest, Val(fv)) THEN rest ELSE Append(rest, Val(fv))

DashIdle == [pc |-> "idle", lookup |-> "none", openVersions |-> <<>>, closedVersions |-> <<>>]

fetchVersionData ==
    /\ dash.pc = "idle"
    /\ \E lookup \in {"ok", "error"} :
          LET versionsMap == VersionsMapAll(versionsTable, lookup)
              versions == DashboardVersions(storedIssues)
          IN  dash' = [pc |-> "done", lookup |-> lookup,
                       openVersions |->
                           SelectSeq(versions, LAMBDA v : IsOpenDashboard(versionsMap, v)),
                       closedVersions |->
                           SelectSeq(versions, LAMBDA v : ~IsOpenDashboard(versionsMap, v))]
    /\ UNCHANGED <<versionsTable, storedIssues, helper, detail, debug, notLife>>

(***************************************************************************)
(* OperationalDetail: fetchData and the version steps of                   *)
(* filteredAndSortedIssues                                                 *)
(***************************************************************************)
IsOpenDetail(versionsMap, versionName) ==
    LET description == MapGet(versionsMap, versionName)
    IN  Falsy(description) \/ Trim(Val(description)) = ""

DetailIdle == [pc |-> "idle", lookup |-> "none", issues |-> <<>>, openVersionsList |-> <<>>,
               onlyOpenVersions |-> FALSE, onlyClosedVersions |-> TRUE]

fetchData ==
    /\ detail.pc = "idle"
    /\ \E lookup \in {"ok", "error", "throw"} :
          LET data == storedIssues
              uniqueVersions == UniqueVersions(data)
              versionsMap == VersionsMapIn(versionsTable, uniqueVersions, lookup)
              openVersions == SelectSeq(uniqueVersions, LAMBDA v : IsOpenDetail(versionsMap, v))
          IN  detail' = IF lookup = "throw"
                        THEN [detail EXCEPT !.pc = "done", !.lookup = lookup]
                        ELSE [detail EXCEPT !.pc = "done", !.lookup = lookup, !.issues = data,
                                            !.openVersionsList = openVersions]
    /\ UNCHANGED <<versionsTable, storedIssues, helper, dash, debug, notLife>>

\* "Em Aberto"
OnlyOpenStep(result, onlyOpenVersions, openVersionsList) ==
    IF onlyOpenVersions /\ Len(openVersionsList) > 0
    THEN SelectSeq(result, LAMBDA issue :
             ~Falsy(issue.fix_version) /\ Includes(openVersionsList, Val(issue.fix_version)))
    ELSE result

\* "Apenas Fechadas"
OnlyClosedStep(result, onlyClosedVersions, openVersionsList) ==
    IF onlyClosedVersions /\ Len(openVersionsList) > 0
    THEN SelectSeq(result, LAMBDA issue :
             Falsy(issue.fix_version) \/ ~Includes(openVersionsList, Val(issue.fix_version)))
    ELSE result

\* filteredAndSortedIssues before sorting, the search, lead-time and bug filters empty
DetailFiltered(d) ==
    OnlyClosedStep(OnlyOpenStep(d.issues, d.onlyOpenVersions, d.openVersionsList),
                   d.onlyClosedVersions, d.openVersionsList)

(***************************************************************************)
(* scripts: debugVersions                                                  *)
(***************************************************************************)
IsOpenDebug(description) == ~IsNull(description) /\ Trim(Val(description)) = "-"
IsClosedDebug(description) == Falsy(description) \/ Trim(Val(description)) # "-"

\* .order('name')
OrderedNames(table) == SelectSeq(ReleaseOrder, LAMBDA n : n \in DOMAIN table)

DebugIdle == [pc |-> "idle", lookup |-> "none", openVersions |-> <<>>, closedVersions |-> <<>>]

debugVersions ==
    /\ debug.pc = "idle"
    /\ \E lookup \in {"ok", "error"} :
          debug' = IF lookup = "error"
                   THEN [debug EXCEPT !.pc = "done", !.lookup = lookup]
                   ELSE [pc |-> "done", lookup |-> lookup,
                         openVersions |-> SelectSeq(OrderedNames(versionsTable),
                                             LAMBDA n : IsOpenDebug(versionsTable[n])),
                         closedVersions |-> SelectSeq(OrderedNames(versionsTable),
                                             LAMBDA n : IsClosedDebug(versionsTable[n]))]
    /\ UNCHANGED <<versionsTable, storedIssues, helper, dash, detail, notLife>>

(***************************************************************************)
(* Specification of the lifecycle classification over a stored state       *)
(***************************************************************************)
DescribedNames == {"V1", "V2"}
LifeTables == [DescribedNames -> DescValues]
FixVersionValues == {Null} \cup {Some(v) : v \in ReleaseNames}
IssueKeyOf(i) == "I-" \o ToString(i)
IssueLists == UNION {{[i \in 1..k |-> [issue_key |-> IssueKeyOf(i), fix_version |-> f[i]]] :
                          f \in [1..k -> FixVersionValues]} : k \in 0..MaxIssues}

LifeInit ==
    /\ versionsTable \in LifeTables
    /\ storedIssues \in IssueLists
    /\ helper = HelperIdle
    /\ dash = DashIdle
    /\ detail = DetailIdle
    /\ debug = DebugIdle

LifeIdle ==
    /\ versionsTable = <<>>
    /\ storedIssues = <<>>
    /\ helper = HelperIdle
    /\ dash = DashIdle
    /\ detail = DetailIdle
    /\ debug = DebugIdle

LifeNext ==
    \/ HelperCall
    \/ fetchVersionData
    \/ fetchData
    \/ debugVersions

(***************************************************************************)
(* parseCSVLine: the fields of one line                                    *)
(***************************************************************************)
Quote == "\""

\* the loop over the characters of line from index i on
RECURSIVE LineFrom(_, _, _, _, _)
LineFrom(line, i, current, inQuotes, result) ==
    IF i > Len(line) THEN Append(result, Trim(current))
    ELSE LET char == Ch(line, i)
             nextChar == Ch(line, i + 1)
         IN  IF char = Quote
             THEN IF inQuotes /\ nextChar = Quote
                  THEN LineFrom(line, i + 2, current \o Quote, inQuotes, result)
                  ELSE LineFrom(line, i + 1, current, ~inQuotes, result)
             ELSE IF char = "," /\ ~inQuotes
                  THEN LineFrom(line, i + 1, "", inQuotes, Append(result, Trim(current)))
                  ELSE LineFrom(line, i + 1, current \o char, inQuotes, result)

\* the loop without the case of two consecutive quotes: every quote toggles
parseCSVLineNoEscape(line) ==
    LET RECURSIVE Strip(_, _)
        Strip(str, k) == IF k > Len(str) THEN ""
                         ELSE (IF Ch(str, k) = Quote THEN "" ELSE Ch(str, k)) \o Strip(str, k + 1)
        fields == LineFrom(line, 1, "", FALSE, <<>>)
    IN  [n \in 1..Len(fields) |-> Trim(Strip(fields[n], 1))]

parseCSVLine(line) == LineFrom(line, 1, "", FALSE, <<>>)

(***************************************************************************)
(* parseCSV after the split into lines and cells: the header cells become  *)
(* unique keys, every data line becomes one row                            *)
(***************************************************************************)
\* a CSVRow: the keys of the object in insertion order, each with its value
RowGet(row, name) ==
    IF \E i \in 1..Len(row) : row[i].h = name
    THEN Some(row[CHOOSE i \in 1..Len(row) : row[i].h = name].v)
    ELSE Null

RowSet(row, name, value) ==
    IF \E i \in 1..Len(row) : row[i].h = name
    THEN [i \in 1..Len(row) |-> IF row[i].h = name THEN [h |-> name, v |-> value] ELSE row[i]]
    ELSE Append(row, [h |-> name, v |-> value])

Count(seq, x) == Cardinality({i \in 1..Len(seq) : seq[i] = x})

\* the function-valued properties every plain object inherits
ProtoFunctionKeys ==
    {"constructor", "hasOwnProperty", "isPrototypeOf", "propertyIsEnumerable", "toLocaleString",
     "toString", "valueOf", "__defineGetter__", "__defineSetter__", "__lookupGetter__",
     "__lookupSetter__"}

\* headerCounts: the k-th occurrence of a header is renamed header_k.  A header
\* that names an inherited property is never undefined in headerCounts: ++ on
\* a function stores NaN, ++ on __proto__ stores nothing and reads the
\* prototype back
UniqueHeaders(rawHeaders) ==
    [i \in 1..Len(rawHeaders) |->
        LET trimmedHeader == Trim(rawHeaders[i])
            trimmedAll == [j \in 1..Len(rawHeaders) |-> Trim(rawHeaders[j])]
            k == Count(SubSeq(trimmedAll, 1, i), trimmedHeader)
        IN  IF trimmedHeader = "__proto__" THEN trimmedHeader \o "_[object Object]"
            ELSE IF trimmedHeader \in ProtoFunctionKeys THEN trimmedHeader \o "_NaN"
            ELSE IF k = 1 THEN trimmedHeader ELSE trimmedHeader \o "_" \o ToString(k)]

RECURSIVE RowOfValues(_, _, _)
RowOfValues(headers, values, n) ==
    IF n = 0 THEN <<>>
    ELSE RowSet(RowOfValues(headers, values, n - 1), headers[n],
                IF n <= Len(values) /\ values[n] # "" THEN values[n] ELSE "")

RECURSIVE RowsOfLines(_, _)
RowsOfLines(headers, lines) ==
    IF Len(lines) = 0 THEN <<>>
    ELSE LET rest == RowsOfLines(headers, SubSeq(lines, 1, Len(lines) - 1))
             values == lines[Len(lines)]
         IN  IF Len(values) = 0 \/ (Len(values) = 1 /\ values[1] = "") THEN rest
             ELSE Append(rest, RowOfValues(headers, values, Len(headers)))

\* file: [headers |-> the cells of the first non-blank line,
\*        lines |-> the cells of each further non-blank line]
parseCSVCells(file) ==
    IF Len(file.lines) < 1 THEN <<>>
    ELSE RowsOfLines(UniqueHeaders(file.headers), file.lines)

\* text.split(/\r?\n/): the line from index i on ends before the first "\n",
\* or before the "\r" in front of it
RECURSIVE SplitFrom(_, _, _)
SplitFrom(text, i, start) ==
    IF i > Len(text) THEN <<SubSeq(text, start, Len(text))>>
    ELSE IF Ch(text, i) = "\n"
         THEN <<SubSeq(text, start, i - 1)>> \o SplitFrom(text, i + 1, i + 1)
         ELSE IF Ch(text, i) = "\r" /\ Ch(text, i + 1) = "\n"
              THEN <<SubSeq(text, start, i - 1)>> \o SplitFrom(text, i + 2, i + 2)
              ELSE SplitFrom(text, i + 1, start)

\* text.split(/\r?\n/).filter(line => line.trim())
SplitLines(text) == SelectSeq(SplitFrom(text, 1, 1), LAMBDA line : Trim(line) # "")

\* the loop over the lines starting at the header line
parseCSVKeepsHeaderRow(text) ==
    LET lines == SplitLines(text)
    IN  IF Len(lines) < 2 THEN <<>>
        ELSE parseCSVCells([headers |-> parseCSVLine(lines[1]),
                            lines |-> [i \in 1..Len(lines) |-> parseCSVLine(lines[i])]])

parseCSV(text) ==
    LET lines == SplitLines(text)
    IN  IF Len(lines) < 2 THEN <<>>
        ELSE parseCSVCells([headers |-> parseCSVLine(lines[1]),
                            lines |-> [i \in 1..(Len(lines) - 1) |->
                                          parseCSVLine(lines[i + 1])]])

(***************************************************************************)
(* Import page: processVersionImport                                       *)
(***************************************************************************)
\* !rows[0].RELEASE || !rows[0].DESCRIÇÃO
InvalidFormatAnd(rows) ==
    Falsy(RowGet(rows[1], "RELEASE")) /\ Falsy(RowGet(rows[1], "DESCRIÇÃO"))

InvalidFormat(rows) ==
    Falsy(RowGet(rows[1], "RELEASE")) \/ Falsy(RowGet(rows[1], "DESCRIÇÃO"))

\* value?.trim()
OptTrim(o) == IF IsNull(o) THEN Null ELSE Some(Trim(Val(o)))

\* description || null
OrNull(o) == IF Falsy(o) THEN Null ELSE o

VimpIdle(file, fault) ==
    [pc |-> "idle", versionFile |-> file, fault |-> fault, rows |-> <<>>, index |-> 0,
     errors |-> <<>>, inserted |-> 0, updated |-> 0, isProcessingVersions |-> FALSE,
     versionResult |-> Null, toast |-> "", reads |-> 0, writes |-> 0]

\* up to the await of versionFile.text()
processVersionImportBegin ==
    /\ vimp.pc = "idle"
    /\ ~IsNull(vimp.versionFile)
    /\ vimp' = [vimp EXCEPT !.pc = "reading", !.isProcessingVersions = TRUE,
                            !.versionResult = Null]
    /\ UNCHANGED <<lifeVars, notVimp>>

\* parseCSV and the two early returns, or the catch when the read rejects
processVersionImportParse ==
    /\ vimp.pc = "reading"
    /\ LET rows == parseCSVCells(Val(vimp.versionFile))
       IN  vimp' =
             IF vimp.fault = "read"
             THEN [vimp EXCEPT !.pc = "failed", !.toast = "Erro na importação",
                               !.isProcessingVersions = FALSE]
             ELSE IF Len(rows) = 0
             THEN [vimp EXCEPT !.pc = "aborted", !.toast = "CSV vazio",
                               !.isProcessingVersions = FALSE]
             ELSE IF InvalidFormat(rows)
             THEN [vimp EXCEPT !.pc = "aborted", !.rows = rows, !.toast = "Formato inválido",
                               !.isProcessingVersions = FALSE]
             ELSE [vimp EXCEPT !.pc = "loop", !.rows = rows, !.index = 1]
    /\ UNCHANGED <<lifeVars, notVimp>>

\* one iteration of the loop over the rows
processVersionImportRow ==
    /\ vimp.pc = "loop"
    /\ vimp.index <= Len(vimp.rows)
    /\ LET row == vimp.rows[vimp.index]
           releaseName == OptTrim(RowGet(row, "RELEASE"))
           description == OptTrim(RowGet(row, "DESCRIÇÃO"))
           existing == vimp.fault # "select" /\ Val(releaseName) \in DOMAIN versionsTable
           rejected == \/ vimp.fault = "write"
                       \/ ~existing /\ Val(releaseName) \in DOMAIN versionsTable
       IN  IF Falsy(releaseName)
           THEN /\ vimp' = [vimp EXCEPT !.index = @ + 1,
                                        !.errors = Append(@, "Linha com RELEASE vazio")]
                /\ UNCHANGED versionsTable
           ELSE /\ vimp' = [vimp EXCEPT
                       !.index = @ + 1,
                       !.reads = @ + 1,
                       !.writes = @ + 1,
                       !.updated = IF existing /\ ~rejected THEN @ + 1 ELSE @,
                       !.inserted = IF ~existing /\ ~rejected THEN @ + 1 ELSE @,
                       !.errors = IF ~rejected THEN @
                                  ELSE IF existing
                                  THEN Append(@, "Erro ao atualizar " \o Val(releaseName))
                                  ELSE Append(@, "Erro ao inserir " \o Val(releaseName))]
                /\ versionsTable' =
                       IF rejected THEN versionsTable
                       ELSE [n \in DOMAIN versionsTable \cup {Val(releaseName)} |->
                               IF n = Val(releaseName) THEN OrNull(description)
                               ELSE versionsTable[n]]
    /\ UNCHANGED <<storedIssues, helper, dash, detail, debug, notVimp>>

\* after the loop: setVersionResult, the toast, finally
processVersionImportFinish ==
    /\ vimp.pc = "loop"
    /\ vimp.index > Len(vimp.rows)
    /\ vimp' = [vimp EXCEPT
           !.pc = "done",
           !.versionResult = Some([totalRows |-> Len(vimp.rows), inserted |-> vimp.inserted,
                                   updated |-> vimp.updated, errors |-> vimp.errors]),
           !.toast = IF Len(vimp.errors) = 0 THEN "Importação de versões concluída!"
                     ELSE "Importação de versões parcial",
           !.isProcessingVersions = FALSE]
    /\ UNCHANGED <<lifeVars, notVimp>>

\* the dashboards classify once the import run is over
ClassifyAfterImport ==
    /\ vimp.pc \in {"done", "aborted", "failed"}
    /\ helper.pc = "idle"
    /\ helper' = getOpenVersionsAndFilterIssues(storedIssues, versionsTable, "ok")
    /\ UNCHANGED <<versionsTable, storedIssues, dash, detail, debug, vimp, notVimp>>

(***************************************************************************)
(* Specification of a release-description import followed by a             *)
(* classification                                                          *)
(***************************************************************************)
VersionHeaders == {<<"RELEASE", "DESCRIÇÃO">>, <<"RELEASE">>, <<"DESCRIÇÃO">>,
                   <<"Release", "DESCRIÇÃO">>, <<"DESCRIÇÃO", "RELEASE">>}
VersionCells == {<<n, d>> : n \in {"", "V1", "V2", "V3"}, d \in {"", "Shipped"}}
ScenarioLines == <<<<"V1", "">>, <<"V2", "Shipped">>, <<"V3", "">>>>
ScenarioLinesDescribedFirst == <<<<"V2", "Shipped">>, <<"V1", "">>, <<"V3", "">>>>
VersionLines == UNION {[1..k -> VersionCells] : k \in 0..MaxVersionRows}
                    \cup {ScenarioLines, ScenarioLinesDescribedFirst}
VersionFiles == {[headers |-> h, lines |-> l] : h \in VersionHeaders, l \in VersionLines}
VersionFaults == {"none", "read", "select", "write"}
VersionTables == {<<>>, [n \in {"V2"} |-> Some("Old")], [n \in {"V1", "V3"} |-> Some("Old")]}
ImportIssues == <<[issue_key |-> "I-1", fix_version |-> Some("V1")],
                  [issue_key |-> "I-2", fix_version |-> Some("V2")],
                  [issue_key |-> "I-3", fix_version |-> Some("V3")],
                  [issue_key |-> "I-4", fix_version |-> Null]>>

VimpInit ==
    /\ vimp \in {VimpIdle(Some(f), x) : f \in VersionFiles, x \in VersionFaults}
    /\ versionsTable \in VersionTables
    /\ storedIssues = ImportIssues
    /\ helper = HelperIdle
    /\ dash = DashIdle
    /\ detail = DetailIdle
    /\ debug = DebugIdle

VimpOff == vimp = VimpIdle(Null, "none")

VimpNext ==
    \/ processVersionImportBegin
    \/ processVersionImportParse
    \/ processVersionImportRow
    \/ processVersionImportFinish
    \/ ClassifyAfterImport

(***************************************************************************)
(* Schema resolver: COLUMN_MAPPINGS, findColumn, findAllColumnsValues      *)
(***************************************************************************)
COLUMN_MAPPINGS ==
    [issue_key |-> <<"Chave da item", "Chave do item", "Issue Key", "Issue key", "Key", "key",
                     "Issue ID", "issue_key">>,
     summary |-> <<"Resumo", "Summary", "summary", "Título", "Title", "Description">>,
     issue_type |-> <<"Tipo de item", "Tipo do item", "Issue Type", "Issue type", "Type", "type",
                      "issue_type", "Tipo">>,
     status |-> <<"Status", "status", "Estado", "State">>,
     project |-> <<"Project", "project", "Projeto", "Project Key", "Project key">>,
     fix_version |-> <<"Versões corrigidas", "Fix Version", "Fix version", "Fix Version/s",
                       "Versão", "Version", "fix_version">>,
     created_date |-> <<"Criado", "Created", "created", "Created Date", "Data de Criação",
                        "created_date">>,
     resolved_date |-> <<"Resolvido", "Resolved", "resolved", "Resolved Date", "Resolution Date",
                         "Data de Resolução", "resolved_date">>,
     system |-> <<"Campo personalizado (Núcleo)", "Núcleo", "System", "system", "Sistema",
                  "Component", "Components">>,
     original_estimate |-> <<"Σ da Estimativa Original", "Original Estimate",
                             "Estimativa Original", "original_estimate">>,
     time_spent |-> <<"Σ de Tempo Gasto", "Time Spent", "Tempo Gasto", "time_spent">>,
     parent_key |-> <<"Chave pai", "Parent Key", "parent_key">>]

\* the first alias, in table order, whose column is present and not ''
RECURSIVE FirstNonEmpty(_, _, _)
FirstNonEmpty(row, possibleNames, k) ==
    IF k > Len(possibleNames) THEN Null
    ELSE LET got == RowGet(row, possibleNames[k])
         IN  IF ~IsNull(got) /\ Val(got) # "" THEN got
             ELSE FirstNonEmpty(row, possibleNames, k + 1)

\* the first column, in row order, that has an alias for a header and is not ''
findColumnInRowOrder(row, columnKey) ==
    LET hits == {c \in 1..Len(row) : Includes(COLUMN_MAPPINGS[columnKey], row[c].h) /\ row[c].v # ""}
    IN  IF hits = {} THEN Null ELSE Some(row[CHOOSE c \in hits : \A d \in hits : c <= d].v)

findColumn(row, columnKey) == FirstNonEmpty(row, COLUMN_MAPPINGS[columnKey], 1)

\* an integer index key ("0", "7", "12"): Object.keys lists these first, ascending
IsIndexKey(h) ==
    /\ Len(h) >= 1
    /\ Len(h) <= 9
    /\ RunEnd(h, 1) = Len(h)
    /\ (Len(h) = 1 \/ Ch(h, 1) # "0")

RECURSIVE SortedIndexKeys(_)
SortedIndexKeys(keys) ==
    IF keys = {} THEN <<>>
    ELSE LET least == CHOOSE k \in keys : \A m \in keys : DigitsToNat(k) <= DigitsToNat(m)
         IN  <<least>> \o SortedIndexKeys(keys \ {least})

\* Object.keys(row)
ObjectKeys(row) ==
    SortedIndexKeys({row[i].h : i \in {j \in 1..Len(row) : IsIndexKey(row[j].h)}})
    \o SelectSeq([i \in 1..Len(row) |-> row[i].h], LAMBDA h : ~IsIndexKey(h))

\* key === name || key.match(/^name(_\d+)?$/), name escaped
KeyMatchesName(key, name) ==
    \/ key = name
    \/ /\ Len(key) >= Len(name) + 2
       /\ SubSeq(key, 1, Len(name)) = name
       /\ Ch(key, Len(name) + 1) = "_"
       /\ RunEnd(key, Len(name) + 2) = Len(key)

\* [...new Set(values)]
RECURSIVE Dedup(_)
Dedup(values) ==
    IF Len(values) = 0 THEN <<>>
    ELSE LET rest == Dedup(SubSeq(values, 1, Len(values) - 1))
             last == values[Len(values)]
         IN  IF Includes(rest, last) THEN rest ELSE Append(rest, last)

\* the values pushed for one key: one per matching alias
RECURSIVE PushedForKey(_, _, _, _)
PushedForKey(row, key, possibleNames, k) ==
    IF k > Len(possibleNames) THEN <<>>
    ELSE (IF KeyMatchesName(key, possibleNames[k]) /\ Trim(Val(RowGet(row, key))) # ""
          THEN <<Trim(Val(RowGet(row, key)))>> ELSE <<>>)
         \o PushedForKey(row, key, possibleNames, k + 1)

RECURSIVE PushedForKeys(_, _, _)
PushedForKeys(row, keys, possibleNames) ==
    IF Len(keys) = 0 THEN <<>>
    ELSE PushedForKey(row, keys[1], possibleNames, 1)
         \o PushedForKeys(row, Tail(keys), possibleNames)

\* the values pushed, repeats kept
findAllColumnsValuesKeepsRepeats(row, columnKey) ==
    PushedForKeys(row, ObjectKeys(row), COLUMN_MAPPINGS[columnKey])

findAllColumnsValues(row, columnKey) ==
    Dedup(PushedForKeys(row, ObjectKeys(row), COLUMN_MAPPINGS[columnKey]))

(***************************************************************************)
(* System name: normalizeSystemName, extractSystemFromSummary              *)
(***************************************************************************)
systemMappings ==
    [n \in {"Tesouraria Nacional", "Rebaixa de Preços", "Automação CD"} |->
        IF n = "Tesouraria Nacional" THEN "Tesouraria"
        ELSE IF n = "Rebaixa de Preços" THEN "Rebaixa de Preço"
        ELSE "Sorter"]

\* what a plain object holds under a name it inherits: a function, or the
\* prototype itself under __proto__; the value is written as String() shows it
InheritedValue(name) ==
    IF name = "__proto__" THEN "[object Object]"
    ELSE "function " \o (IF name = "constructor" THEN "Object" ELSE name)
             \o "() { [native code] }"

\* systemMappings[normalized] || normalized: systemMappings is a plain object,
\* so an inherited name is found in it too
normalizeSystemName(system) ==
    IF Falsy(system) THEN Null
    ELSE LET normalized == Trim(Val(system))
         IN  IF normalized \in DOMAIN systemMappings THEN Some(systemMappings[normalized])
             ELSE IF normalized \in ProtoFunctionKeys \cup {"__proto__"}
                  THEN Some(InheritedValue(normalized))
                  ELSE Some(normalized)

\* index of the first "]" at or after i, Len(s) + 1 when there is none
RECURSIVE FirstClose(_, _)
FirstClose(s, i) == IF i > Len(s) \/ Ch(s, i) = "]" THEN i ELSE FirstClose(s, i + 1)

\* summary.match(/^\[([^\]]+)\]/)
extractSystemFromSummary(summary) ==
    IF Falsy(summary) THEN Null
    ELSE LET s == Val(summary)
             close == FirstClose(s, 2)
         IN  IF Ch(s, 1) = "[" /\ close >= 3 /\ close <= Len(s)
             THEN normalizeSystemName(Some(Trim(SubSeq(s, 2, close - 1))))
             ELSE Null

(***************************************************************************)
(* Versions: extractVersionNumber, compareVersions, getHighestVersion      *)
(***************************************************************************)
\* version.match(/(\d+)/g) mapped through parseInt, or [0]
RECURSIVE DigitRuns(_, _)
DigitRuns(s, i) ==
    IF i > Len(s) THEN <<>>
    ELSE IF IsDigit(Ch(s, i))
    THEN <<DigitsToNat(SubSeq(s, i, RunEnd(s, i)))>> \o DigitRuns(s, RunEnd(s, i) + 1)
    ELSE DigitRuns(s, i + 1)

extractVersionNumber(version) ==
    IF DigitRuns(version, 1) = <<>> THEN <<0>> ELSE DigitRuns(version, 1)

RECURSIVE CompareFrom(_, _, _)
CompareFrom(numsA, numsB, i) ==
    IF i > Len(numsA) /\ i > Len(numsB) THEN 0
    ELSE LET numA == IF i <= Len(numsA) THEN numsA[i] ELSE 0
             numB == IF i <= Len(numsB) THEN numsB[i] ELSE 0
         IN  IF numA # numB THEN numA - numB ELSE CompareFrom(numsA, numsB, i + 1)

\* the comparison without the zero padding: it stops at the shorter sequence
compareVersionsNoPadding(a, b) ==
    LET numsA == extractVersionNumber(a)
        numsB == extractVersionNumber(b)
        minLen == IF Len(numsA) < Len(numsB) THEN Len(numsA) ELSE Len(numsB)
    IN  CompareFrom(SubSeq(numsA, 1, minLen), SubSeq(numsB, 1, minLen), 1)

compareVersions(a, b) == CompareFrom(extractVersionNumber(a), extractVersionNumber(b), 1)

\* versions.reduce((highest, current) => compareVersions(current, highest) > 0 ? current : highest)
RECURSIVE ReduceHighest(_, _, _)
ReduceHighest(versions, highest, i) ==
    IF i > Len(versions) THEN highest
    ELSE ReduceHighest(versions,
                       IF compareVersions(versions[i], highest) > 0 THEN versions[i] ELSE highest,
                       i + 1)

\* the reduction keeping the later of two versions that compare equal
getHighestVersionLastOnTies(versions) ==
    IF Len(versions) = 0 THEN Null
    ELSE LET last == CHOOSE i \in 1..Len(versions) :
                         /\ \A j \in 1..Len(versions) :
                                compareVersions(versions[j], versions[i]) <= 0
                         /\ \A j \in (i + 1)..Len(versions) :
                                compareVersions(versions[j], versions[i]) < 0
         IN  Some(versions[last])

getHighestVersion(versions) ==
    IF Len(versions) = 0 THEN Null
    ELSE IF Len(versions) = 1 THEN Some(versions[1])
    ELSE Some(ReduceHighest(versions, versions[1], 2))

(***************************************************************************)
(* Date (ECMAScript 21.4) in whole minutes.  host is the machine the page  *)
(* runs on: host.tz is its local time minus UTC in minutes (no daylight    *)
(* saving), host.engine says whether its ISO parser rolls a day past the   *)
(* end of the month over ("lenient", as V8) or rejects it ("strict", as    *)
(* SpiderMonkey), host.legacy says what its implementation-defined parser  *)
(* does with a string outside the ECMAScript format that holds a digit:    *)
(* "reject" (Invalid Date) or "accept" (the day host.legacyDay)            *)
(***************************************************************************)
Letters == {"a", "b", "c", "d", "e", "f", "g", "h", "i", "j", "k", "l", "m", "n", "o", "p", "q",
            "r", "s", "t", "u", "v", "w", "x", "y", "z", "A", "B", "C", "D", "E", "F", "G", "H",
            "I", "J", "K", "L", "M", "N", "O", "P", "Q", "R", "S", "T", "U", "V", "W", "X", "Y",
            "Z"}

\* days from 1970-01-01 to the civil date y-m-d (m in 1..12, any integer d)
DaysFromCivil(y, m, d) ==
    LET yy == IF m <= 2 THEN y - 1 ELSE y
        era == yy \div 400
        yoe == yy - era * 400
        doy == (153 * (IF m > 2 THEN m - 3 ELSE m + 9) + 2) \div 5 + d - 1
        doe == yoe * 365 + yoe \div 4 - yoe \div 100 + doy
    IN  era * 146097 + doe - 719468

\* the civil date of a day number
CivilFromDays(z) ==
    LET zz == z + 719468
        era == zz \div 146097
        doe == zz - era * 146097
        yoe == (doe - doe \div 1460 + doe \div 36524 - doe \div 146096) \div 365
        doy == doe - (365 * yoe + yoe \div 4 - yoe \div 100)
        mp == (5 * doy + 2) \div 153
        m == IF mp < 10 THEN mp + 3 ELSE mp - 9
    IN  [year |-> yoe + era * 400 + (IF m <= 2 THEN 1 ELSE 0),
         month |-> m,
         day |-> doy - (153 * mp + 2) \div 5 + 1]

DaysInMonth(y, m) == DaysFromCivil(IF m = 12 THEN y + 1 ELSE y, IF m = 12 THEN 1 ELSE m + 1, 1)
                        - DaysFromCivil(y, m, 1)

\* new Date(year, monthIndex, day, hours, minutes): local time, components roll
\* over, a year 0..99 means 1900 + year; the result is the UTC time value
NewDateLocal(year, monthIndex, day, hours, minutes, host) ==
    LET yr == IF year >= 0 /\ year <= 99 THEN 1900 + year ELSE year
        ym == yr + monthIndex \div 12
        mn == monthIndex % 12
        dayNum == DaysFromCivil(ym, mn + 1, 1) + day - 1
    IN  Some(dayNum * 1440 + hours * 60 + minutes - host.tz)

RECURSIVE PadLeft(_, _)
PadLeft(str, width) == IF Len(str) >= width THEN str ELSE PadLeft("0" \o str, width)

\* the day written from its numbers without the leading zeros
IsoDayUnpadded(t) ==
    LET c == CivilFromDays(t \div 1440)
    IN  ToString(c.year) \o "-" \o ToString(c.month) \o "-" \o ToString(c.day)

\* date.toISOString().split('T')[0], years 0..9999
IsoDay(t) ==
    LET c == CivilFromDays(t \div 1440)
    IN  PadLeft(ToString(c.year), 4) \o "-" \o PadLeft(ToString(c.month), 2) \o "-"
            \o PadLeft(ToString(c.day), 2)

\* s[i..j] is made of digits only
AllDigits(s, i, j) == \A k \in i..j : IsDigit(Ch(s, k))
Num(s, i, j) == DigitsToNat(SubSeq(s, i, j))

\* YYYY-MM-DD at the start of s
HasIsoPrefix(s) ==
    /\ Len(s) >= 10
    /\ AllDigits(s, 1, 4) /\ Ch(s, 5) = "-" /\ AllDigits(s, 6, 7) /\ Ch(s, 8) = "-"
    /\ AllDigits(s, 9, 10)

\* the time part of the ECMAScript format: THH:mm, THH:mm:ss, each with an
\* optional Z (milliseconds and numeric offsets are outside the model's strings)
IsIsoTime(s) ==
    /\ Ch(s, 11) = "T" /\ AllDigits(s, 12, 13) /\ Ch(s, 14) = ":" /\ AllDigits(s, 15, 16)
    /\ LET r == SubSeq(s, 17, Len(s))
       IN  \/ r \in {"", "Z"}
           \/ /\ Len(r) \in {3, 4}
              /\ Ch(r, 1) = ":" /\ AllDigits(r, 2, 3)
              /\ Len(r) = 4 => Ch(r, 4) = "Z"

\* new Date(dateStr): the time value, Null for an Invalid Date
NewDateParse(s, host) ==
    IF HasIsoPrefix(s) /\ (Len(s) = 10 \/ IsIsoTime(s))
    THEN LET y == Num(s, 1, 4)
             m == Num(s, 6, 7)
             d == Num(s, 9, 10)
             hh == IF Len(s) = 10 THEN 0 ELSE Num(s, 12, 13)
             mi == IF Len(s) = 10 THEN 0 ELSE Num(s, 15, 16)
             ss == IF Len(s) >= 19 THEN Num(s, 18, 19) ELSE 0
             utc == Len(s) = 10 \/ Ch(s, Len(s)) = "Z"
             dayOk == /\ d >= 1
                      /\ IF host.engine = "lenient" THEN d <= 31 ELSE d <= DaysInMonth(y, m)
             timeOk == \/ hh <= 23 /\ mi <= 59 /\ ss <= 59
                       \/ hh = 24 /\ mi = 0 /\ ss = 0
         IN  IF m >= 1 /\ m <= 12 /\ dayOk /\ timeOk
             THEN Some(DaysFromCivil(y, m, 1) * 1440 + (d - 1) * 1440 + hh * 60 + mi
                         - (IF utc THEN 0 ELSE host.tz))
             ELSE Null
    ELSE IF host.legacy = "accept" /\ \E k \in 1..Len(s) : IsDigit(Ch(s, k))
    THEN Some(host.legacyDay * 1440 - host.tz)
    ELSE Null

(***************************************************************************)
(* parseDate                                                               *)
(***************************************************************************)
\* /^(\d{1,2})\/(\d{1,2})\/(\d{2})\s+(\d{1,2}):(\d{2})$/
\* the groups as index pairs, Null when the string does not match
NumericShortMatch(s) ==
    LET d2 == RunEnd(s, 1)
        m1 == d2 + 2
        m2 == RunEnd(s, m1)
        y1 == m2 + 2
        y2 == RunEnd(s, y1)
        h1 == SkipSpace(s, y2 + 1)
        h2 == RunEnd(s, h1)
        n1 == h2 + 2
        n2 == RunEnd(s, n1)
    IN  IF /\ d2 \in {1, 2} /\ Ch(s, d2 + 1) = "/"
           /\ m2 - m1 + 1 \in {1, 2} /\ Ch(s, m2 + 1) = "/"
           /\ y2 - y1 + 1 = 2
           /\ h1 > y2 + 1
           /\ h2 - h1 + 1 \in {1, 2} /\ Ch(s, h2 + 1) = ":"
           /\ n2 - n1 + 1 = 2 /\ n2 = Len(s)
        THEN Some([day |-> Num(s, 1, d2), month |-> Num(s, m1, m2), year |-> Num(s, y1, y2),
                   hours |-> Num(s, h1, h2), minutes |-> Num(s, n1, n2)])
        ELSE Null

\* /^(\d{1,2})\/([A-Za-z]{3})\/(\d{2,4})\s+(\d{1,2}):(\d{2})$/
JiraMatch(s) ==
    LET d2 == RunEnd(s, 1)
        m1 == d2 + 2
        y1 == m1 + 4
        y2 == RunEnd(s, y1)
        h1 == SkipSpace(s, y2 + 1)
        h2 == RunEnd(s, h1)
        n1 == h2 + 2
        n2 == RunEnd(s, n1)
    IN  IF /\ d2 \in {1, 2} /\ Ch(s, d2 + 1) = "/"
           /\ \A k \in m1..(m1 + 2) : Ch(s, k) \in Letters
           /\ Ch(s, m1 + 3) = "/"
           /\ y2 - y1 + 1 \in {2, 3, 4}
           /\ h1 > y2 + 1
           /\ h2 - h1 + 1 \in {1, 2} /\ Ch(s, h2 + 1) = ":"
           /\ n2 - n1 + 1 = 2 /\ n2 = Len(s)
        THEN Some([day |-> Num(s, 1, d2), month |-> SubSeq(s, m1, m1 + 2),
                   year |-> SubSeq(s, y1, y2),
                   hours |-> Num(s, h1, h2), minutes |-> Num(s, n1, n2)])
        ELSE Null

monthMap ==
    [n \in {"Jan", "Fev", "Feb", "Mar", "Abr", "Apr", "Mai", "May", "Jun", "Jul", "Ago", "Aug",
            "Set", "Sep", "Out", "Oct", "Nov", "Dez", "Dec"} |->
        CASE n = "Jan" -> 0
          [] n \in {"Fev", "Feb"} -> 1
          [] n = "Mar" -> 2
          [] n \in {"Abr", "Apr"} -> 3
          [] n \in {"Mai", "May"} -> 4
          [] n = "Jun" -> 5
          [] n = "Jul" -> 6
          [] n \in {"Ago", "Aug"} -> 7
          [] n \in {"Set", "Sep"} -> 8
          [] n \in {"Out", "Oct"} -> 9
          [] n = "Nov" -> 10
          [] OTHER -> 11]

\* monthMap[month] || 0
MonthIndex(month) == IF month \in DOMAIN monthMap THEN monthMap[month] ELSE 0

\* /^(\d{1,2})\/(\d{1,2})\/(\d{4})$/
SlashMatch(s) ==
    LET d2 == RunEnd(s, 1)
        m1 == d2 + 2
        m2 == RunEnd(s, m1)
        y1 == m2 + 2
        y2 == RunEnd(s, y1)
    IN  IF /\ d2 \in {1, 2} /\ Ch(s, d2 + 1) = "/"
           /\ m2 - m1 + 1 \in {1, 2} /\ Ch(s, m2 + 1) = "/"
           /\ y2 - y1 + 1 = 4 /\ y2 = Len(s)
        THEN Some([day |-> Num(s, 1, d2), month |-> Num(s, m1, m2), year |-> Num(s, y1, y2)])
        ELSE Null

\* every Date the formats build is valid, so the first format that matches
\* returns; isoFormat falls through when new Date(dateStr) is invalid
parseDate(dateStr, host) ==
    IF Falsy(dateStr) THEN Null
    ELSE LET s == Val(dateStr)
             numericShortMatch == NumericShortMatch(s)
             jiraMatch == JiraMatch(s)
             slashMatch == SlashMatch(s)
         IN  IF ~IsNull(numericShortMatch)
             THEN LET g == Val(numericShortMatch)
                  IN  Some(IsoDay(Val(NewDateLocal(2000 + g.year, g.month - 1, g.day,
                                                   g.hours, g.minutes, host))))
             ELSE IF ~IsNull(jiraMatch)
             THEN LET g == Val(jiraMatch)
                      fullYear == IF Len(g.year) = 2 THEN 2000 + DigitsToNat(g.year)
                                  ELSE DigitsToNat(g.year)
                  IN  Some(IsoDay(Val(NewDateLocal(fullYear, MonthIndex(g.month), g.day,
                                                   g.hours, g.minutes, host))))
             ELSE IF HasIsoPrefix(s) /\ ~IsNull(NewDateParse(s, host))
             THEN Some(IsoDay(Val(NewDateParse(s, host))))
             ELSE IF ~IsNull(slashMatch)
             THEN LET g == Val(slashMatch)
                  IN  Some(IsoDay(Val(NewDateLocal(g.year, g.month - 1, g.day, 0, 0, host))))
             ELSE IF ~IsNull(NewDateParse(s, host))
             THEN Some(IsoDay(Val(NewDateParse(s, host))))
             ELSE Null

(***************************************************************************)
(* calculateLeadTime                                                       *)
(***************************************************************************)
\* Math.ceil(a / b) for b > 0
CeilDiv(a, b) == 0 - ((0 - a) \div b)

\* the difference returned whatever its sign
calculateLeadTimeSigned(createdDate, resolvedDate, host) ==
    IF Falsy(createdDate) \/ Falsy(resolvedDate) THEN Null
    ELSE LET created == NewDateParse(Val(createdDate), host)
             resolved == NewDateParse(Val(resolvedDate), host)
         IN  IF IsNull(created) \/ IsNull(resolved) THEN Null
             ELSE Some(CeilDiv(Val(resolved) - Val(created), 1440))

calculateLeadTime(createdDate, resolvedDate, host) ==
    IF Falsy(createdDate) \/ Falsy(resolvedDate) THEN Null
    ELSE LET created == NewDateParse(Val(createdDate), host)
             resolved == NewDateParse(Val(resolvedDate), host)
         IN  IF IsNull(created) \/ IsNull(resolved) THEN Null
             ELSE LET diffDays == CeilDiv(Val(resolved) - Val(created), 1440)
                  IN  IF diffDays >= 0 THEN Some(diffDays) ELSE Null

(***************************************************************************)
(* mapCSVToIssues                                                          *)
(***************************************************************************)
\* `Linha ${i + 2}: ...` for the row at index i of the array (i + 1 here)
LineOf(i) == "Linha " \o ToString(i + 1)
KeyMissingError(i) == LineOf(i) \o ": Chave do item não encontrada"

\* the ParsedIssue built for a row whose key was found, from its parsed dates
\* and its summary
IssueOfRow(row, issueKey, createdDate, resolvedDate, summary, host) ==
    [issue_key |-> Trim(Val(issueKey)),
     summary |-> summary,
     issue_type |-> findColumn(row, "issue_type"),
     status |-> findColumn(row, "status"),
     project |-> findColumn(row, "project"),
     system |-> extractSystemFromSummary(summary),
     fix_version |-> getHighestVersion(SelectSeq(findAllColumnsValues(row, "fix_version"),
                                                 LAMBDA v : v # "")),
     created_date |-> createdDate,
     resolved_date |-> resolvedDate,
     lead_time_days |-> calculateLeadTime(createdDate, resolvedDate, host),
     original_estimate |-> parseTimeValue(findColumn(row, "original_estimate")),
     time_spent |-> parseTimeValue(findColumn(row, "time_spent")),
     parent_key |-> findColumn(row, "parent_key")]

\* the console.warn lines of a row: a raw date that did not parse
WarningsOfRow(i, createdDateRaw, createdDate, resolvedDateRaw, resolvedDate) ==
    (IF ~Falsy(createdDateRaw) /\ Falsy(createdDate)
     THEN <<LineOf(i) \o ": Data de criação inválida: " \o Val(createdDateRaw)>>
     ELSE <<>>)
    \o (IF ~Falsy(resolvedDateRaw) /\ Falsy(resolvedDate)
        THEN <<LineOf(i) \o ": Data de resolução inválida: " \o Val(resolvedDateRaw)>>
        ELSE <<>>)

\* one pass of the loop body for a row whose key was found
RowMapped(acc, row, i, issueKey, createdDateRaw, createdDate, resolvedDateRaw, resolvedDate, host) ==
    [acc EXCEPT
        !.issues = Append(@, IssueOfRow(row, issueKey, createdDate, resolvedDate,
                                        findColumn(row, "summary"), host)),
        !.warnings = @ \o WarningsOfRow(i, createdDateRaw, createdDate,
                                        resolvedDateRaw, resolvedDate)]

\* the loop over rows[i..], from the accumulators acc
RECURSIVE MapFrom(_, _, _, _)
MapFrom(rows, i, host, acc) ==
    IF i > Len(rows) THEN acc
    ELSE IF Falsy(findColumn(rows[i], "issue_key"))
    THEN MapFrom(rows, i + 1, host, [acc EXCEPT !.errors = Append(@, KeyMissingError(i))])
    ELSE MapFrom(rows, i + 1, host,
                 RowMapped(acc, rows[i], i, findColumn(rows[i], "issue_key"),
                           findColumn(rows[i], "created_date"),
                           parseDate(findColumn(rows[i], "created_date"), host),
                           findColumn(rows[i], "resolved_date"),
                           parseDate(findColumn(rows[i], "resolved_date"), host),
                           host))

\* the mapping with a row left out of issues when none of its dates parses
mapCSVToIssuesDropsBadDates(rows, host) ==
    [MapFrom(rows, 1, host, [issues |-> <<>>, errors |-> <<>>, warnings |-> <<>>])
        EXCEPT !.issues = SelectSeq(@, LAMBDA issue : \/ ~IsNull(issue.created_date)
                                                      \/ ~IsNull(issue.resolved_date))]

mapCSVToIssues(rows, host) ==
    MapFrom(rows, 1, host, [issues |-> <<>>, errors |-> <<>>, warnings |-> <<>>])

(***************************************************************************)
(* Specification of one call of mapCSVToIssues                             *)
(***************************************************************************)
Cell(h, v) == [h |-> h, v |-> v]

\* the key columns of a row
KeyCells ==
    {<<>>,
     <<Cell("Issue Key", "A-1")>>,
     <<Cell("Issue Key", "")>>,
     <<Cell("Issue Key", "  ")>>,
     <<Cell("Issue Key", " B-2 ")>>,
     <<Cell("Issue Key", ""), Cell("Key", "C-3")>>,
     <<Cell("Chave da item", "D-4"), Cell("Issue Key", "A-1")>>}

\* the other columns of a row
OtherCells ==
    {<<Cell("Summary", "[Tesouraria Nacional] Fix"), Cell("Status", "Done")>>,
     <<Cell("Created", "17/12/25 10:11"), Cell("Resolved", "19/12/25 23:30")>>,
     <<Cell("Created", "15/Jan/24 10:30"), Cell("Resolved", "2024-01-10")>>,
     <<Cell("Created", "garbage"), Cell("Resolved", "2024-02-30")>>,
     <<Cell("Created", "05/01/2024"), Cell("Resolved", "no date 1")>>,
     <<Cell("Original Estimate", "2d 4h"), Cell("Time Spent", "1h 30m")>>,
     <<Cell("Original Estimate", "-7200"), Cell("Time Spent", "-5")>>,
     <<Cell("Original Estimate", "7200"), Cell("Time Spent", "soon")>>,
     <<Cell("Fix Version", "1.9"), Cell("Fix Version_2", "1.10"), Cell("Parent Key", "P-1")>>}

\* a row has key columns alone or the key A-1 and other columns
MapRows == KeyCells \cup {<<Cell("Issue Key", "A-1")>> \o o : o \in OtherCells}

MapRowLists == UNION {[1..k -> MapRows] : k \in 0..MaxRows}

Hosts == {[tz |-> -180, engine |-> "lenient", legacy |-> "reject", legacyDay |-> 0],
          [tz |-> 0, engine |-> "strict", legacy |-> "reject", legacyDay |-> 0],
          [tz |-> 60, engine |-> "lenient", legacy |-> "accept", legacyDay |-> 11323],
          [tz |-> 0, engine |-> "strict", legacy |-> "accept", legacyDay |-> 0 - 1]}

MapIdle(rows, host) ==
    [pc |-> "call", rows |-> rows, host |-> host,
     issues |-> <<>>, errors |-> <<>>, warnings |-> <<>>]

MapInit == \E rows \in MapRowLists, host \in Hosts : mapper = MapIdle(rows, host)

MapOffHost == CHOOSE h \in Hosts : h.tz = 0 /\ h.legacy = "reject"
MapOff == mapper = [MapIdle(<<>>, MapOffHost) EXCEPT !.pc = "idle"]

\* the state after the call has returned out
Returned(m, out) ==
    [m EXCEPT !.pc = "done", !.issues = out.issues, !.errors = out.errors,
              !.warnings = out.warnings]

MapCall ==
    /\ mapper.pc = "call"
    /\ mapper' = Returned(mapper, mapCSVToIssues(mapper.rows, mapper.host))
    /\ UNCHANGED notMap

MapNext == MapCall

\* rows with a key whose other columns exercise the derived fields
FixVersionCells ==
    {<<Cell("Versões corrigidas", "1.0"), Cell("Versões corrigidas_2", "1.2")>>,
     <<Cell("Fix Version", "1.2"), Cell("Fix Version_2", "1.2.0"), Cell("Version", "1.1")>>,
     <<Cell("Versão", "2.0"), Cell("Status", "Done"), Cell("Fix version", "Release 10.0"),
       Cell("fix_version", "9")>>,
     <<Cell("Fix Version", ""), Cell("Fix Version_2", "  "), Cell("Version_x", "3.0")>>,
     <<Cell("Fix Version/s", ""), Cell("Fix Version/s_12", " beta "), Cell("Version", "alpha")>>}

LeadTimeCells ==
    {<<Cell("Created", "2024-01-01"), Cell("Resolved", "2024-01-05")>>,
     <<Cell("Created", "2024-01-05"), Cell("Resolved", "2024-01-01")>>,
     <<Cell("Created", "17/12/25 10:11"), Cell("Resolved", "17/12/25 23:30")>>,
     <<Cell("Created", "2024-01-10"), Cell("Resolved", "2024-01-10T23:30:00Z")>>,
     <<Cell("Criado", "28/Fev/24 10:00"), Cell("Resolvido", "01/03/2024")>>,
     <<Cell("Created", "05/01/2024"), Cell("Resolved", "garbage")>>,
     <<Cell("Resolved", "2024-01-05")>>}

SystemCells ==
    {<<Cell("Summary", "[Tesouraria Nacional] Fix"), Cell("System", "X")>>,
     <<Cell("Summary", "[Tesouraria Nacional] Fix"), Cell("Components", "Y"), Cell("Sistema", "Z")>>,
     <<Cell("Summary", "[ Portal ] bar"), Cell("System", "Foo")>>,
     <<Cell("Resumo", "no tag [Portal]"), Cell("System", "Portal")>>,
     <<Cell("Summary", "[constructor] inject"), Cell("System", "Core")>>,
     <<Cell("Summary", "[Automação CD]x")>>,
     <<Cell("Summary", "[] x"), Cell("Component", "W")>>,
     <<Cell("System", "Z")>>}

FieldCells == FixVersionCells \cup LeadTimeCells \cup SystemCells

FieldRows == {<<Cell("Issue Key", "A-1")>> \o o : o \in FieldCells}

FieldRowLists == UNION {[1..k -> FieldRows] : k \in 1..MaxRows}

MapFieldsInit == \E rows \in FieldRowLists, host \in Hosts : mapper = MapIdle(rows, host)

(***************************************************************************)
(* Specification of compareVersions called on (a, b) and on (b, a)         *)
(***************************************************************************)
VersionChars == {"1", "2", "0", ".", "v"}
VersionExamples == {"Release 2.10.0", "Release 2.9.0", "1.2", "1.2.0", "1.2.1", "1.10", "1.9",
                    "beta", "v1.2-rc3", "1.02", "10"}
VersionStrings == StringsUpTo(VersionChars, MaxVersionLen) \cup VersionExamples

VerIdle(a, b) == [pc |-> "call", a |-> a, b |-> b, ab |-> 0, ba |-> 0]

VerInit == \E a \in VersionStrings, b \in VersionStrings : ver = VerIdle(a, b)

VerOff == ver = [VerIdle("", "") EXCEPT !.pc = "idle"]

CompareVersionsCall ==
    /\ ver.pc = "call"
    /\ ver' = [ver EXCEPT !.pc = "done", !.ab = compareVersions(ver.a, ver.b),
                          !.ba = compareVersions(ver.b, ver.a)]
    /\ UNCHANGED notVer

VerNext == CompareVersionsCall

(***************************************************************************)
(* Specification of parseCSVLine called on one line                        *)
(***************************************************************************)
LineChars == {"a", ",", Quote, " "}
LineExamples == {"\"a,\"\"b\"\"\"", "x, \"y,z\" ,w", "k,\"a\"\"\",b\",", " \" a \" ,\"\"\"\""}
LineInputs == StringsUpTo(LineChars, MaxLineLen) \cup LineExamples

LineIdle(line) == [pc |-> "call", line |-> line, result |-> <<>>]

LineInit == \E line \in LineInputs : csvLine = LineIdle(line)

LineOff == csvLine = [LineIdle("") EXCEPT !.pc = "idle"]

ParseCSVLineCall ==
    /\ csvLine.pc = "call"
    /\ csvLine' = [csvLine EXCEPT !.pc = "done", !.result = parseCSVLine(csvLine.line)]
    /\ UNCHANGED notLine

LineNext == ParseCSVLineCall

(***************************************************************************)
(* Specification of parseCSV called on one text                            *)
(***************************************************************************)
TextChars == {"a", ",", "\n", Quote}
TextExamples ==
    {"A,A,A_2\n1,2,3", "A,B,A,A\n1,2,3,4\n5", "a,b\r\n1\r\n\r\n \r\n1,2,3\r\n\"\"\r\nx,y",
     "constructor,constructor\n1,2", "__proto__,b\n1,2", "Key, Fix Version ,Fix Version\nA-1,1.0,1.2",
     "a\n \" \" \nb"}
TextInputs == StringsUpTo(TextChars, MaxTextLen) \cup TextExamples

CsvIdle(text) == [pc |-> "call", text |-> text, rows |-> <<>>]

CsvInit == \E text \in TextInputs : csvText = CsvIdle(text)

CsvOff == csvText = [CsvIdle("") EXCEPT !.pc = "idle"]

ParseCSVCall ==
    /\ csvText.pc = "call"
    /\ csvText' = [csvText EXCEPT !.pc = "done", !.rows = parseCSV(csvText.text)]
    /\ UNCHANGED notCsv

CsvNext == ParseCSVCall

(***************************************************************************)
(* Specification of parseDate called on a string and then on its result    *)
(***************************************************************************)
DateDays == {"1", "17", "29", "31", "32"}
DateMonths == {"1", "02", "12", "13"}
DateMonthNames == {"Jan", "Fev", "Feb", "Dez", "Xyz"}
DateShortYears == {"24", "25"}
DateLongYears == {"2024", "2025"}
DateTimes == {"10:11", "23:30", "0:05", "25:00"}

NumericShortInputs ==
    {d \o "/" \o m \o "/" \o y \o " " \o t :
        d \in DateDays, m \in DateMonths, y \in DateShortYears, t \in DateTimes}

JiraInputs ==
    {d \o "/" \o m \o "/" \o y \o " " \o t :
        d \in DateDays, m \in DateMonthNames, y \in DateShortYears \cup DateLongYears,
        t \in DateTimes}

SlashInputs == {d \o "/" \o m \o "/" \o y : d \in DateDays, m \in DateMonths, y \in DateLongYears}

OtherDateInputs ==
    {"2024-01-10", "2024-02-29", "2023-02-29", "2024-02-30", "2024-13-01", "2024-01-10T23:30:00",
     "2024-01-10T00:30", "2024-01-10T23:30:00Z", "2024-12-31T23:30", "garbage", "no date 1",
     "Jan 10, 2024", "32/01/25 10:00", "15/Jan/24 10:30"}

DateInputs ==
    {Null, Some("")}
    \cup {Some(str) : str \in NumericShortInputs \cup JiraInputs \cup SlashInputs \cup OtherDateInputs}

DateIdle(dateStr, host) ==
    [pc |-> "call", dateStr |-> dateStr, host |-> host, out |-> Null, again |-> Null]

DateInit == \E dateStr \in DateInputs, host \in Hosts : date = DateIdle(dateStr, host)

DateOff == date = [DateIdle(Null, MapOffHost) EXCEPT !.pc = "idle"]

\* the state after parseDate has returned out and has been called on it again
DateReturned(d, out) ==
    [d EXCEPT !.pc = "done", !.out = out,
              !.again = IF IsNull(out) THEN Null ELSE parseDate(out, d.host)]

ParseDateCall ==
    /\ date.pc = "call"
    /\ date' = DateReturned(date, parseDate(date.dateStr, date.host))
    /\ UNCHANGED notDate

DateNext == ParseDateCall


(***************************************************************************)
(* Import page: processImport.  Every await is a step; a write is sent to   *)
(* the store in one step and its answer resumes the loop in the next.      *)
(* A store call never throws: it answers with an error or without one.     *)
(***************************************************************************)
Runs == {1, 2}

\* t with the record of key set to issue
TablePut(t, key, issue) == [k \in DOMAIN t \cup {key} |-> IF k = key THEN issue ELSE t[k]]

ImpIdle(file, faults) ==
    [pc |-> "idle", file |-> file, faults |-> faults, issues |-> <<>>, errors |-> <<>>,
     existingKeys |-> {}, lookups |-> 0, index |-> 0, attempts |-> <<>>, inserted |-> 0,
     updated |-> 0, isProcessing |-> FALSE, result |-> Null, toast |-> ""]

\* if (!file) return; setIsProcessing(true); setResult(null); await file.text()
processImportBegin(r) ==
    /\ imp.run[r].pc = "idle"
    /\ ~IsNull(imp.run[r].file)
    /\ imp.oneAtATime => \A q \in Runs : ~imp.run[q].isProcessing
    /\ imp' = [imp EXCEPT !.run[r].pc = "reading", !.run[r].isProcessing = TRUE,
                          !.run[r].result = Null]
    /\ UNCHANGED <<db, notImp>>

\* the run after mapCSVToIssues has returned out
Mapped(run, out) ==
    IF Len(out.issues) = 0
    THEN [run EXCEPT !.pc = "aborted", !.toast = "Erro no CSV", !.isProcessing = FALSE]
    ELSE [run EXCEPT !.pc = "lookup", !.issues = out.issues, !.errors = out.errors]

\* parseCSV, mapCSVToIssues and the two early returns
Parsed(run, rows) ==
    IF Len(rows) = 0
    THEN [run EXCEPT !.pc = "aborted", !.toast = "CSV vazio", !.isProcessing = FALSE]
    ELSE Mapped(run, mapCSVToIssues(rows, MapOffHost))

processImportParse(r) ==
    /\ imp.run[r].pc = "reading"
    /\ imp' = [imp EXCEPT !.run[r] = Parsed(@, parseCSVCells(Val(@.file)))]
    /\ UNCHANGED <<db, notImp>>

\* select issue_key ... in (issueKeys); existingIssues is null when it fails
processImportLookup(r) ==
    /\ imp.run[r].pc = "lookup"
    /\ imp' = [imp EXCEPT
           !.run[r].pc = "loop",
           !.run[r].index = 1,
           !.run[r].lookups = @ + 1,
           !.run[r].existingKeys =
               IF imp.run[r].faults.lookup THEN {}
               ELSE {imp.run[r].issues[n].issue_key : n \in 1..Len(imp.run[r].issues)}
                        \cap DOMAIN db.issues]
    /\ UNCHANGED <<db, notImp>>

\* the branch taken whatever the snapshot holds when the store has the key
WriteKindByStore(run, issue) == IF issue.issue_key \in DOMAIN db.issues THEN "update" ELSE "insert"

\* existingKeys.has(issue.issue_key)
WriteKind(run, issue) == IF issue.issue_key \in run.existingKeys THEN "update" ELSE "insert"

\* the top of the loop body up to the await of the update or the insert
processImportSend(r) ==
    /\ imp.run[r].pc = "loop"
    /\ imp.run[r].index <= Len(imp.run[r].issues)
    /\ LET issue == imp.run[r].issues[imp.run[r].index]
       IN  imp' = [imp EXCEPT
               !.run[r].pc = "writing",
               !.run[r].attempts = Append(@, [key |-> issue.issue_key,
                                              kind |-> WriteKind(imp.run[r], issue),
                                              outcome |-> "pending"])]
    /\ UNCHANGED <<db, notImp>>

\* a store without the uniqueness constraint on issue_key
StoreAnswerNotUnique(run, kind, issue) ==
    IF run.index \in run.faults.writes THEN "connection lost" ELSE ""

\* the answer of the store to the write of issue: '' when it applies it
StoreAnswer(run, kind, issue) ==
    IF run.index \in run.faults.writes THEN "connection lost"
    ELSE IF kind = "insert" /\ issue.issue_key \in DOMAIN db.issues
    THEN "duplicate key value violates unique constraint"
    ELSE ""

\* the loop stopped at the first write the store rejects
ResumedStopsOnError(run, kind, issue, message) ==
    [run EXCEPT
        !.pc = "loop",
        !.index = IF message = "" THEN @ + 1 ELSE Len(run.issues) + 1,
        !.attempts[Len(run.attempts)].outcome = IF message = "" THEN "ok" ELSE "failed",
        !.inserted = IF message = "" /\ kind = "insert" THEN @ + 1 ELSE @,
        !.updated = IF message = "" /\ kind = "update" THEN @ + 1 ELSE @,
        !.errors = IF message = "" THEN @
                   ELSE Append(@, "Erro ao inserir " \o issue.issue_key \o ": " \o message)]

\* the rest of the loop body once the store has answered with message
Resumed(run, kind, issue, message) ==
    [run EXCEPT
        !.pc = "loop",
        !.index = @ + 1,
        !.attempts[Len(run.attempts)].outcome = IF message = "" THEN "ok" ELSE "failed",
        !.inserted = IF message = "" /\ kind = "insert" THEN @ + 1 ELSE @,
        !.updated = IF message = "" /\ kind = "update" THEN @ + 1 ELSE @,
        !.errors = IF message = "" THEN @
                   ELSE IF kind = "update"
                   THEN Append(@, "Erro ao atualizar " \o issue.issue_key \o ": " \o message)
                   ELSE Append(@, "Erro ao inserir " \o issue.issue_key \o ": " \o message)]

\* the store handles the write and its answer resumes the loop; an update of
\* a key the store does not hold changes nothing and is no error
processImportWrite(r) ==
    /\ imp.run[r].pc = "writing"
    /\ LET run == imp.run[r]
           issue == run.issues[run.index]
           kind == run.attempts[Len(run.attempts)].kind
           message == StoreAnswer(run, kind, issue)
       IN  /\ imp' = [imp EXCEPT !.run[r] = Resumed(run, kind, issue, message)]
           /\ db' = IF message = "" /\ (kind = "insert" \/ issue.issue_key \in DOMAIN db.issues)
                    THEN [db EXCEPT !.issues = TablePut(@, issue.issue_key, issue)]
                    ELSE db
    /\ UNCHANGED notImp

\* after the loop: the insert into imports, whose answer is not looked at
processImportRecord(r) ==
    /\ imp.run[r].pc = "loop"
    /\ imp.run[r].index > Len(imp.run[r].issues)
    /\ imp' = [imp EXCEPT !.run[r].pc = "recorded"]
    /\ db' = IF imp.run[r].faults.history THEN db
             ELSE [db EXCEPT !.imports = Append(@, [run |-> r,
                                                    total_rows |-> Len(imp.run[r].issues)])]
    /\ UNCHANGED notImp

\* setResult, the toast, finally
processImportFinish(r) ==
    /\ imp.run[r].pc = "recorded"
    /\ imp' = [imp EXCEPT
           !.run[r].pc = "done",
           !.run[r].result = Some([totalRows |-> Len(imp.run[r].issues),
                                   inserted |-> imp.run[r].inserted,
                                   updated |-> imp.run[r].updated,
                                   errors |-> imp.run[r].errors]),
           !.run[r].toast = IF Len(imp.run[r].errors) = 0 THEN "Importação concluída!"
                            ELSE "Importação parcial",
           !.run[r].isProcessing = FALSE]
    /\ UNCHANGED <<db, notImp>>

(***************************************************************************)
(* Specification of one run of processImport against a store that may      *)
(* fail                                                                    *)
(***************************************************************************)
ImportHeaders == <<"Issue Key", "Summary", "Created">>
ImportLines == {<<"K1", "a", "">>, <<"K1", "b", "">>, <<"K2", "a", "garbage">>, <<"", "b", "">>}
ImportFiles ==
    {[headers |-> ImportHeaders, lines |-> l] :
        l \in UNION {[1..k -> ImportLines] : k \in 0..MaxFileRows}}
NoFaults == [lookup |-> FALSE, history |-> FALSE, writes |-> {}]
ImportFaults == [lookup : BOOLEAN, history : BOOLEAN, writes : SUBSET (1..MaxFileRows)]

\* the issue an earlier import stored for the line
StoredFrom(line) ==
    mapCSVToIssues(parseCSVCells([headers |-> ImportHeaders, lines |-> <<line>>]),
                   MapOffHost).issues[1]

ImportStores ==
    {[issues |-> <<>>, imports |-> <<>>],
     [issues |-> [k \in {"K1"} |-> StoredFrom(<<"K1", "old", "">>)], imports |-> <<>>]}

ImpOffRun == ImpIdle(Null, NoFaults)

ImpInit ==
    /\ db \in ImportStores
    /\ \E f \in ImportFiles, x \in ImportFaults :
           imp = [run |-> [r \in Runs |-> IF r = 1 THEN ImpIdle(Some(f), x) ELSE ImpOffRun],
                  oneAtATime |-> TRUE]

ImpOff ==
    /\ db = [issues |-> <<>>, imports |-> <<>>]
    /\ imp = [run |-> [r \in Runs |-> ImpOffRun], oneAtATime |-> TRUE]

ImpNext ==
    \E r \in Runs :
        \/ processImportBegin(r)
        \/ processImportParse(r)
        \/ processImportLookup(r)
        \/ processImportSend(r)
        \/ processImportWrite(r)
        \/ processImportRecord(r)
        \/ processImportFinish(r)

(***************************************************************************)
(* Specification of two runs of processImport, from two sessions on the    *)
(* same store, which the host either lets overlap or runs one at a time    *)
(***************************************************************************)
MaxPairRows == 2
PairLines == {<<"K1", "a", "">>, <<"K2", "b", "">>}
PairFiles ==
    {[headers |-> ImportHeaders, lines |-> l] :
        l \in UNION {[1..k -> PairLines] : k \in 1..MaxPairRows}}

ImpPairInit ==
    /\ db \in ImportStores
    /\ \E f \in PairFiles, g \in PairFiles, serial \in BOOLEAN :
           imp = [run |-> [r \in Runs |-> ImpIdle(Some(IF r = 1 THEN f ELSE g), NoFaults)],
                  oneAtATime |-> serial]

(***************************************************************************)
(* Specification of findColumn and findAllColumnsValues called on a row    *)
(***************************************************************************)
MaxCols == 2
ResolverHeaders == {"Status", "Estado", "STATUS", "Status_2", "Version", "Fix Version"}
ResolverValues == {"", " ", "a", " a", "b"}
ResolverCells == {Cell(h, v) : h \in ResolverHeaders, v \in ResolverValues}
ResolverRows ==
    {row \in UNION {[1..k -> ResolverCells] : k \in 0..MaxCols} :
        \A i, j \in 1..Len(row) : row[i].h = row[j].h => i = j}
ResolverKeys == {"status", "fix_version"}

ResolverInit ==
    \E row \in ResolverRows, columnKey \in ResolverKeys :
        resolver = [pc |-> "call", row |-> row, columnKey |-> columnKey, found |-> Null,
                    all |-> <<>>]

ResolverOff ==
    resolver = [pc |-> "idle", row |-> <<>>, columnKey |-> "status", found |-> Null, all |-> <<>>]

ResolverCall ==
    /\ resolver.pc = "call"
    /\ resolver' = [resolver EXCEPT
           !.pc = "done",
           !.found = findColumn(resolver.row, resolver.columnKey),
           !.all = findAllColumnsValues(resolver.row, resolver.columnKey)]
    /\ UNCHANGED notResolver

ResolverNext == ResolverCall

(***************************************************************************)
(* OperationalDetail: the effect on [filters] starts fetchData at mount    *)
(* and at every change of the global filters; nothing cancels a call that  *)
(* is still awaiting the store.  Each await is a step.                     *)
(***************************************************************************)
MaxChanges == 2
VersionFilters == {"all", "V1"}

\* the query with the global filters applied (the version filter)
IssuesFor(filters) ==
    IF filters = "all" THEN storedIssues
    ELSE SelectSeq(storedIssues, LAMBDA i : ~IsNull(i.fix_version) /\ Val(i.fix_version) = filters)

\* PASSO 2 to 5: the open versions among those of data
OpenVersionsOf(data, lookup) ==
    SelectSeq(UniqueVersions(data),
              LAMBDA v : IsOpenDetail(VersionsMapIn(versionsTable, UniqueVersions(data), lookup), v))

FetchCall(filters) == [filters |-> filters, pc |-> "issues", lookup |-> "none", data |-> <<>>]

\* the page once mounted: the first call of fetchData is awaiting the issues
FetchMounted ==
    [pc |-> "mounted", filters |-> "all", calls |-> <<FetchCall("all")>>, loading |-> TRUE,
     issues |-> <<>>, openVersionsList |-> <<>>,
     onlyOpenVersions |-> FALSE, onlyClosedVersions |-> TRUE]

\* the global filters change: the effect runs fetchData again
setFilters ==
    /\ fetch.pc = "mounted"
    /\ Len(fetch.calls) <= MaxChanges
    /\ \E f \in VersionFilters \ {fetch.filters} :
           fetch' = [fetch EXCEPT !.filters = f, !.calls = Append(@, FetchCall(f)),
                                  !.loading = TRUE]
    /\ UNCHANGED <<lifeVars, notFetch>>

\* const { data, error } = await query
fetchDataIssues ==
    /\ fetch.pc = "mounted"
    /\ \E c \in 1..Len(fetch.calls), answer \in {"ok", "error"} :
           /\ fetch.calls[c].pc = "issues"
           /\ fetch' = IF answer = "error"
                       THEN [fetch EXCEPT !.calls[c].pc = "failed", !.loading = FALSE]
                       ELSE [fetch EXCEPT !.calls[c].pc = "versions",
                                          !.calls[c].data = IssuesFor(fetch.calls[c].filters)]
    /\ UNCHANGED <<lifeVars, notFetch>>

\* setOpenVersionsList(openVersions); setIssues(data || []); finally
Shown(f, c, lookup, openVersions) ==
    [f EXCEPT !.calls[c].pc = "done", !.calls[c].lookup = lookup,
              !.openVersionsList = openVersions, !.issues = f.calls[c].data,
              !.loading = FALSE]

\* const { data: versionsData, error: versionsError } = await ... and the rest
fetchDataVersions ==
    /\ fetch.pc = "mounted"
    /\ \E c \in 1..Len(fetch.calls), lookup \in {"ok", "error"} :
           /\ fetch.calls[c].pc = "versions"
           /\ fetch' = Shown(fetch, c, lookup, OpenVersionsOf(fetch.calls[c].data, lookup))
    /\ UNCHANGED <<lifeVars, notFetch>>

\* the checkbox "Em Aberto"
setOnlyOpenVersions ==
    /\ fetch.pc = "mounted"
    /\ fetch' = [fetch EXCEPT !.onlyOpenVersions = ~@]
    /\ UNCHANGED <<lifeVars, notFetch>>

\* the checkbox "Apenas Fechadas"
setOnlyClosedVersions ==
    /\ fetch.pc = "mounted"
    /\ fetch' = [fetch EXCEPT !.onlyClosedVersions = ~@]
    /\ UNCHANGED <<lifeVars, notFetch>>

(***************************************************************************)
(* Specification of OperationalDetail over a stored state                  *)
(***************************************************************************)
DetailStores ==
    {[table |-> [n \in DescribedNames |-> IF n = "V1" THEN Null ELSE Some("Shipped")],
      issues |-> <<[issue_key |-> "I-1", fix_version |-> Some("V1")],
                   [issue_key |-> "I-2", fix_version |-> Some("V2")]>>],
     [table |-> [n \in DescribedNames |-> Some("Shipped")],
      issues |-> <<[issue_key |-> "I-1", fix_version |-> Some("V1")],
                   [issue_key |-> "I-2", fix_version |-> Some("V2")]>>],
     [table |-> [n \in DescribedNames |-> Some("")],
      issues |-> <<[issue_key |-> "I-1", fix_version |-> Null],
                   [issue_key |-> "I-2", fix_version |-> Some("V2")]>>]}

FetchInit ==
    /\ \E store \in DetailStores : versionsTable = store.table /\ storedIssues = store.issues
    /\ helper = HelperIdle
    /\ dash = DashIdle
    /\ detail = DetailIdle
    /\ debug = DebugIdle
    /\ fetch = FetchMounted

\* not yet mounted
FetchOff == fetch = [FetchMounted EXCEPT !.pc = "idle", !.calls = <<>>, !.loading = FALSE]

FetchNext ==
    \/ setFilters
    \/ fetchDataIssues
    \/ fetchDataVersions
    \/ setOnlyOpenVersions
    \/ setOnlyClosedVersions

TimeIdle ==
    /\ tvIn = Null
    /\ tvOut = Null
    /\ tvPc = "idle"

(***************************************************************************)
(* Specifications                                                          *)
(***************************************************************************)
PureOff == VerOff /\ LineOff /\ CsvOff /\ DateOff /\ ImpOff /\ FetchOff /\ ResolverOff

InitTime == TimeInit /\ LifeIdle /\ VimpOff /\ MapOff /\ PureOff
SpecTime == InitTime /\ [][TimeNext]_vars

InitLife == LifeInit /\ TimeIdle /\ VimpOff /\ MapOff /\ PureOff
SpecLife == InitLife /\ [][LifeNext]_vars

InitVersionImport == VimpInit /\ TimeIdle /\ MapOff /\ PureOff
SpecVersionImport == InitVersionImport /\ [][VimpNext]_vars

InitMap == MapInit /\ TimeIdle /\ LifeIdle /\ VimpOff /\ PureOff
SpecMap == InitMap /\ [][MapNext]_vars

InitMapFields == MapFieldsInit /\ TimeIdle /\ LifeIdle /\ VimpOff /\ PureOff
SpecMapFields == InitMapFields /\ [][MapNext]_vars

InitCsvLine == LineInit /\ TimeIdle /\ LifeIdle /\ VimpOff /\ MapOff /\ VerOff /\ CsvOff
                   /\ DateOff /\ ImpOff
               /\ FetchOff /\ ResolverOff
SpecCsvLine == InitCsvLine /\ [][LineNext]_vars

InitCsv == CsvInit /\ TimeIdle /\ LifeIdle /\ VimpOff /\ MapOff /\ VerOff /\ LineOff /\ DateOff /\ ImpOff
           /\ FetchOff /\ ResolverOff
SpecCsv == InitCsv /\ [][CsvNext]_vars

InitDate == DateInit /\ TimeIdle /\ LifeIdle /\ VimpOff /\ MapOff /\ VerOff /\ LineOff /\ CsvOff /\ ImpOff
            /\ FetchOff /\ ResolverOff
SpecDate == InitDate /\ [][DateNext]_vars

InitImport == ImpInit /\ TimeIdle /\ LifeIdle /\ VimpOff /\ MapOff /\ VerOff /\ LineOff /\ CsvOff
                  /\ DateOff /\ FetchOff /\ ResolverOff
SpecImport == InitImport /\ [][ImpNext]_vars

InitImportPair == ImpPairInit /\ TimeIdle /\ LifeIdle /\ VimpOff /\ MapOff /\ VerOff /\ LineOff
                      /\ CsvOff /\ DateOff /\ FetchOff /\ ResolverOff
SpecImportPair == InitImportPair /\ [][ImpNext]_vars

InitResolver == ResolverInit /\ TimeIdle /\ LifeIdle /\ VimpOff /\ MapOff /\ VerOff /\ LineOff /\ CsvOff
                    /\ DateOff /\ ImpOff /\ FetchOff
SpecResolver == InitResolver /\ [][ResolverNext]_vars

InitDetail == FetchInit /\ TimeIdle /\ VimpOff /\ MapOff /\ VerOff /\ LineOff /\ CsvOff /\ DateOff
                  /\ ImpOff /\ ResolverOff
SpecDetail == InitDetail /\ [][FetchNext]_vars

InitVersions == VerInit /\ TimeIdle /\ LifeIdle /\ VimpOff /\ MapOff /\ LineOff /\ CsvOff
                    /\ DateOff /\ ImpOff
                /\ FetchOff /\ ResolverOff
SpecVersions == InitVersions /\ [][VerNext]_vars

(***************************************************************************)
(* Claims about parseTimeValue (checked under SpecTime)                    *)
(***************************************************************************)
\* a duration value: up to three tokens <n><unit> with distinct units
TokenNumbers == {"1", "2", "4", "30"}
TokenUnits == {"d", "h", "m"}
UnitLetters(u) == IF u = "d" THEN {"d", "D"} ELSE IF u = "h" THEN {"h", "H"} ELSE {"m", "M"}
Tokens == {[num |-> n, unit |-> u, letter |-> l] :
              n \in TokenNumbers, u \in TokenUnits, l \in {"d", "D", "h", "H", "m", "M"}}
TokenLists ==
    {<<t>> : t \in {x \in Tokens : x.letter \in UnitLetters(x.unit)}}
    \cup {<<[num |-> a, unit |-> "h", letter |-> "h"], [num |-> b, unit |-> "m", letter |-> "m"]>> :
              a \in TokenNumbers, b \in TokenNumbers}
    \cup {<<[num |-> a, unit |-> "d", letter |-> "d"], [num |-> b, unit |-> "h", letter |-> "h"]>> :
              a \in TokenNumbers, b \in TokenNumbers}
    \cup {<<[num |-> a, unit |-> "h", letter |-> "H"], [num |-> b, unit |-> "m", letter |-> "M"]>> :
              a \in TokenNumbers, b \in TokenNumbers}
    \cup {<<[num |-> a, unit |-> "h", letter |-> "h"], [num |-> b, unit |-> "d", letter |-> "d"]>> :
              a \in TokenNumbers, b \in TokenNumbers}

RECURSIVE RenderTokens(_)
RenderTokens(ts) ==
    IF Len(ts) = 0 THEN ""
    ELSE ts[1].num \o ts[1].letter \o (IF Len(ts) > 1 THEN " " ELSE "") \o RenderTokens(Tail(ts))

\* 8 * days + hours + minutes / 60, in minutes
RECURSIVE TokenMinutes(_)
TokenMinutes(ts) ==
    IF Len(ts) = 0 THEN 0
    ELSE DigitsToNat(ts[1].num)
            * (IF ts[1].unit = "d" THEN 480 ELSE IF ts[1].unit = "h" THEN 60 ELSE 1)
         + TokenMinutes(Tail(ts))

\* C8: for a value made of duration tokens <n>d, <n>h, <n>m, parseTimeValue
\* returns 8*days + hours + minutes/60 rounded to 2 decimals ("1h 30m" gives
\* 1.5, "2d 4h" gives 20)
C8_TokenSum ==
    tvPc = "done" =>
        \A ts \in TokenLists :
            tvIn = Some(RenderTokens(ts)) =>
                /\ ~IsNull(tvOut)
                /\ REq(Val(tvOut), Round2(Rat(TokenMinutes(ts), 60)))

\* a bare number: [-] digits [. digits]
IsBareNumber(s) ==
    LET p == IF Ch(s, 1) = "-" THEN 2 ELSE 1
        e1 == RunEnd(s, p)
    IN  /\ e1 >= p
        /\ \/ e1 = Len(s)
           \/ /\ Ch(s, e1 + 1) = "."
              /\ e1 + 2 <= Len(s)
              /\ RunEnd(s, e1 + 2) = Len(s)

\* the value of a bare number: its digits read as one integer, scaled by the
\* number of digits behind the point
BareValue(s) ==
    LET p == IF Ch(s, 1) = "-" THEN 2 ELSE 1
        e1 == RunEnd(s, p)
        fracLen == IF e1 = Len(s) THEN 0 ELSE Len(s) - e1 - 1
        all == DigitsToNat(SubSeq(s, p, e1) \o SubSeq(s, e1 + 2, Len(s)))
    IN  Rat(IF p = 2 THEN 0 - all ELSE all, Pow10(fracLen))

\* C9: for a bare number n, parseTimeValue returns n/3600 rounded to 2 decimals
\* when n > 1000 and n unchanged when n <= 1000; "7200" gives 2, "4" gives 4,
\* "1000" gives 1000
C9_BareNumber ==
    tvPc = "done" /\ ~IsNull(tvIn) /\ IsBareNumber(Trim(Val(tvIn))) =>
        LET n == BareValue(Trim(Val(tvIn)))
        IN  /\ ~IsNull(tvOut)
            /\ n.n > 1000 * n.d => Val(tvOut).d = 100
                                   /\ 2 * (36 * Val(tvOut).n * n.d - n.n) <= 36 * n.d
                                   /\ 2 * (n.n - 36 * Val(tvOut).n * n.d) <= 36 * n.d
            /\ n.n <= 1000 * n.d => REq(Val(tvOut), n)
            /\ tvIn = Some("7200") => REq(Val(tvOut), RInt(2))
            /\ tvIn = Some("4") => REq(Val(tvOut), RInt(4))
            /\ tvIn = Some("1000") => REq(Val(tvOut), RInt(1000))

C9_Witness ==
    /\ tvPc = "done"
    /\ tvIn = Some("7200")
    /\ tvOut = Some(Rat(200, 100))


(***************************************************************************)
(* Claims about the lifecycle classification (checked under SpecLife)      *)
(***************************************************************************)
\* a description that is null, empty or only white space
IsBlank(description) ==
    IsNull(description) \/ \A i \in 1..Len(Val(description)) : Ch(Val(description), i) = " "

\* C3: a release name is classified open if and only if the release lookup has
\* no entry for it or its description is null, empty or only white space; any
\* non-blank description, "-" included, makes it closed
C3_OpenIffBlank ==
    helper.pc = "done" /\ helper.lookup \in {"ok", "error"} =>
        \A i \in 1..Len(helper.issues) :
            LET fv == helper.issues[i].fix_version
            IN  ~IsNull(fv) =>
                    /\ Includes(helper.openVersions, Val(fv))
                         <=> \/ Val(fv) \notin DOMAIN helper.versionsMap
                             \/ IsBlank(helper.versionsMap[Val(fv)])
                    /\ MapGet(helper.versionsMap, Val(fv)) = Some("-")
                         => ~Includes(helper.openVersions, Val(fv))

C3_Witness ==
    /\ helper.pc = "done"
    /\ helper.lookup = "ok"
    /\ MapGet(helper.versionsMap, "V1") = Some("  ")
    /\ MapGet(helper.versionsMap, "V2") = Some("-")
    /\ helper.openVersions = <<"V1">>

\* the answer of each place that has classified release n after a successful
\* lookup: TRUE for open, FALSE for closed
SiteAnswers(n) ==
    {Includes(helper.openVersions, n) :
        x \in {y \in {1} : /\ helper.pc = "done" /\ helper.lookup = "ok"
                           /\ Includes(UniqueVersions(helper.issues), n)}}
    \cup {Includes(dash.openVersions, n) :
        x \in {y \in {1} : /\ dash.pc = "done" /\ dash.lookup = "ok"
                           /\ Includes(dash.openVersions \o dash.closedVersions, n)}}
    \cup {Includes(detail.openVersionsList, n) :
        x \in {y \in {1} : /\ detail.pc = "done" /\ detail.lookup = "ok"
                           /\ Includes(UniqueVersions(detail.issues), n)}}
    \cup {Includes(debug.openVersions, n) :
        x \in {y \in {1} : /\ debug.pc = "done" /\ debug.lookup = "ok"
                           /\ Includes(debug.openVersions \o debug.closedVersions, n)}}

\* C4: every place that classifies releases as open or closed (the helper,
\* VersionDashboard, OperationalDetail, debugVersions) gives the same answer
\* for every release description
C4_SameAnswerEverywhere ==
    \A n \in DOMAIN versionsTable : Cardinality(SiteAnswers(n)) <= 1

\* out is the list of the issues of in whose fix_version is absent or not in
\* open, in the order of in
IsClosedOnly(out, in, open) ==
    LET keep == {i \in 1..Len(in) :
                    \/ IsNull(in[i].fix_version)
                    \/ \A j \in 1..Len(open) : open[j] # Val(in[i].fix_version)}
        nth(j) == CHOOSE i \in keep : Cardinality({k \in keep : k <= i}) = j
    IN  /\ Len(out) = Cardinality(keep)
        /\ \A j \in 1..Len(out) : out[j] = in[nth(j)]

HasHeader(file, name) == \E i \in 1..Len(file.headers) : Trim(file.headers[i]) = name
HasBothHeaders(file) == HasHeader(file, "RELEASE") /\ HasHeader(file, "DESCRIÇÃO")

\* the cell of a data line under a header
CellUnder(file, line, name) ==
    LET i == CHOOSE k \in 1..Len(file.headers) : Trim(file.headers[k]) = name
    IN  IF i <= Len(line) THEN Trim(line[i]) ELSE ""

ImportOver == vimp.pc \in {"done", "aborted"}

\* C6: after a release-description import of a file that has both headers,
\* every row with a non-empty release name has been upserted (blank description
\* stored as absent), whatever the description of the first data row; importing
\* [(V1, none), (V2, "Shipped"), (V3, "")] and then classifying issues of V1, V2,
\* V3 gives V1 and V3 open, V2 closed, and the closed-only filter keeps exactly
\* the issues of V2 or of no fix_version
C6_ImportThenClassify ==
    ImportOver /\ vimp.fault = "none" /\ HasBothHeaders(Val(vimp.versionFile)) =>
        LET file == Val(vimp.versionFile)
        IN  /\ \A i \in 1..Len(file.lines) :
                  LET name == CellUnder(file, file.lines[i], "RELEASE")
                      last == CHOOSE j \in 1..Len(file.lines) :
                                  /\ CellUnder(file, file.lines[j], "RELEASE") = name
                                  /\ \A k \in (j + 1)..Len(file.lines) :
                                        CellUnder(file, file.lines[k], "RELEASE") # name
                      desc == CellUnder(file, file.lines[last], "DESCRIÇÃO")
                  IN  name # "" =>
                          /\ name \in DOMAIN versionsTable
                          /\ versionsTable[name] = IF desc = "" THEN Null ELSE Some(desc)
            /\ file.lines = ScenarioLines /\ helper.pc = "done" =>
                  /\ helper.openVersions = <<"V1", "V3">>
                  /\ helper.filteredIssues = <<ImportIssues[2], ImportIssues[4]>>

\* C7: a release-description import whose file lacks the RELEASE header or the
\* DESCRIÇÃO header aborts before processing any row: no read or write of the
\* versions table for any row, no import result, the processing flag reset
C7_MissingHeaderAborts ==
    ~IsNull(vimp.versionFile) /\ ~HasBothHeaders(Val(vimp.versionFile)) =>
        /\ vimp.reads = 0
        /\ vimp.writes = 0
        /\ vimp.index = 0
        /\ vimp.pc \in {"idle", "reading", "aborted", "failed"}
        /\ IsNull(vimp.versionResult)
        /\ versionsTable \in VersionTables
        /\ vimp.pc \in {"aborted", "failed"} => ~vimp.isProcessingVersions

C7_Witness ==
    /\ vimp.pc = "aborted"
    /\ vimp.toast = "Formato inválido"
    /\ Val(vimp.versionFile).headers = <<"RELEASE">>
    /\ Len(vimp.rows) = 2
    /\ RowGet(vimp.rows[1], "RELEASE") = Some("V1")
    /\ ~vimp.isProcessingVersions
    /\ vimp.reads = 0

(***************************************************************************)
(* Claims about mapCSVToIssues                                             *)
(***************************************************************************)
MapDone == mapper.pc = "done"

\* a row has a resolvable issue key: one of the aliases of issue_key names a
\* column of the row that is not ''
HasResolvableKey(row) ==
    \E k \in 1..Len(COLUMN_MAPPINGS.issue_key) :
        \E c \in 1..Len(row) : row[c].h = COLUMN_MAPPINGS.issue_key[k] /\ row[c].v # ""

KeyedRows(rows) == {i \in 1..Len(rows) : HasResolvableKey(rows[i])}

\* the number of keyed rows among rows[1..i]
KeyedUpTo(rows, i) == Cardinality({j \in 1..i : HasResolvableKey(rows[j])})

\* C1: the number of issues returned plus the number of key-missing errors
\* equals the number of rows: a row with a resolvable key yields exactly one
\* issue (its n-th keyed row is the n-th issue) and no error, a row without one
\* yields exactly one error and no issue, whatever its dates and durations are
C1_CountInvariant ==
    MapDone =>
        LET rows == mapper.rows
            keyed == KeyedRows(rows)
        IN  /\ Len(mapper.issues) + Len(mapper.errors) = Len(rows)
            /\ Len(mapper.issues) = Cardinality(keyed)
            /\ \A i \in 1..Len(rows) :
                   Count(mapper.errors, KeyMissingError(i)) = (IF i \in keyed THEN 0 ELSE 1)
            /\ \A i \in keyed :
                   mapper.issues[KeyedUpTo(rows, i)].issue_key
                       = Trim(Val(findColumn(rows[i], "issue_key")))

\* a call has returned for a keyed row whose creation date did not parse, next
\* to a row without a key
C1_Witness ==
    /\ MapDone
    /\ Len(mapper.rows) = 2
    /\ Len(mapper.issues) = 1 /\ Len(mapper.errors) = 1
    /\ \E i \in 1..2 : /\ RowGet(mapper.rows[i], "Created") = Some("garbage")
                       /\ mapper.issues[1].created_date = Null
    /\ Len(mapper.warnings) > 0

\* C2: every issue returned has a non-empty issue_key, also for a row whose key
\* column holds only white space
C2_KeyNonEmpty ==
    MapDone => \A n \in 1..Len(mapper.issues) : mapper.issues[n].issue_key # ""

\* C10: original_estimate and time_spent of every issue returned are absent or
\* a number of hours that is not negative
C10_TimeNonNegative ==
    MapDone =>
        \A n \in 1..Len(mapper.issues) :
            /\ \/ IsNull(mapper.issues[n].original_estimate)
               \/ RGe(Val(mapper.issues[n].original_estimate), RInt(0))
            /\ \/ IsNull(mapper.issues[n].time_spent)
               \/ RGe(Val(mapper.issues[n].time_spent), RInt(0))

(***************************************************************************)
(* Claims about the derived fields of an issue (checked under              *)
(* SpecMapFields)                                                          *)
(***************************************************************************)
\* the issue returned for the keyed row i
IssueOf(i) == mapper.issues[KeyedUpTo(mapper.rows, i)]

\* h without the suffix _<digits> a repeated header gets
BaseHeader(h) ==
    LET cut == {k \in 1..(Len(h) - 1) :
                   /\ Ch(h, k) = "_"
                   /\ \A j \in (k + 1)..Len(h) : Ch(h, j) \in Digits}
    IN  IF cut = {} THEN h
        ELSE SubSeq(h, 1, (CHOOSE k \in cut : \A j \in cut : k <= j) - 1)

Aliases(columnKey) == {COLUMN_MAPPINGS[columnKey][k] : k \in 1..Len(COLUMN_MAPPINGS[columnKey])}

\* the columns of row that are fix-version columns and hold a value
FixVersionColumns(row) ==
    {c \in 1..Len(row) :
        /\ row[c].h \in Aliases("fix_version") \/ BaseHeader(row[c].h) \in Aliases("fix_version")
        /\ Trim(row[c].v) # ""}

\* C12: fix_version of an issue is the highest value, by compareVersions, among
\* the non-empty values of the fix-version columns of its row, the columns with
\* a duplicate suffix included; of values that compare equal the first in
\* column order is kept; it is null when the row has no such value
C12_HighestFixVersion ==
    MapDone =>
        \A i \in KeyedRows(mapper.rows) :
            LET row == mapper.rows[i]
                cols == FixVersionColumns(row)
                fix == IssueOf(i).fix_version
            IN  /\ IsNull(fix) <=> cols = {}
                /\ ~IsNull(fix) =>
                    \E c \in cols :
                        /\ Val(fix) = Trim(row[c].v)
                        /\ \A d \in cols : compareVersions(Trim(row[d].v), Val(fix)) <= 0
                        /\ \A d \in cols : d < c => compareVersions(Trim(row[d].v), Val(fix)) < 0

\* issues were returned for the row with "1.0" and "1.2" and for the row whose
\* "1.2" and "1.2.0" compare equal
C12_Witness ==
    /\ MapDone
    /\ Len(mapper.rows) = 2
    /\ RowGet(mapper.rows[1], "Versões corrigidas_2") = Some("1.2")
    /\ IssueOf(1).fix_version = Some("1.2")
    /\ RowGet(mapper.rows[2], "Fix Version_2") = Some("1.2.0")
    /\ IssueOf(2).fix_version = Some("1.2")

LeapYear(y) == y % 4 = 0 /\ (y % 100 # 0 \/ y % 400 = 0)

\* the length of month m of year y in the Gregorian calendar
MonthLength(y, m) ==
    IF m \in {4, 6, 9, 11} THEN 30
    ELSE IF m = 2 THEN (IF LeapYear(y) THEN 29 ELSE 28)
    ELSE 31

\* days from 0001-01-01 to the first day of year y: 365 a year and one more
\* for every leap year before y
DaysBeforeYear(y) == 365 * (y - 1) + (y - 1) \div 4 - (y - 1) \div 100 + (y - 1) \div 400

\* days from the first day of year y to the first day of its month m
RECURSIVE DaysBeforeMonth(_, _)
DaysBeforeMonth(y, m) == IF m <= 1 THEN 0 ELSE DaysBeforeMonth(y, m - 1) + MonthLength(y, m - 1)

\* the number of the day written YYYY-MM-DD, counted from 0001-01-01
DayNumber(day) ==
    DaysBeforeYear(Num(day, 1, 4)) + DaysBeforeMonth(Num(day, 1, 4), Num(day, 6, 7))
        + Num(day, 9, 10)

\* C19: lead_time_days of an issue is present exactly when created_date and
\* resolved_date are both present and resolved_date is not earlier than
\* created_date; it is then the number of whole days from created_date to
\* resolved_date (0 for the same day, 4 from 2024-01-01 to 2024-01-05), never
\* a negative number
C19_LeadTimeDays ==
    MapDone =>
        \A n \in 1..Len(mapper.issues) :
            LET issue == mapper.issues[n]
                both == ~IsNull(issue.created_date) /\ ~IsNull(issue.resolved_date)
            IN  /\ ~IsNull(issue.lead_time_days) <=>
                       (both /\ DayNumber(Val(issue.resolved_date))
                                    >= DayNumber(Val(issue.created_date)))
                /\ ~IsNull(issue.lead_time_days) =>
                       /\ Val(issue.lead_time_days) >= 0
                       /\ Val(issue.lead_time_days) = DayNumber(Val(issue.resolved_date))
                                                        - DayNumber(Val(issue.created_date))
                /\ (issue.created_date = Some("2024-01-01")
                        /\ issue.resolved_date = Some("2024-01-05"))
                       => issue.lead_time_days = Some(4)

\* issues were returned with a lead time of 4 days from 2024-01-01 to
\* 2024-01-05 and without one for a resolution before the creation
C19_Witness ==
    /\ MapDone
    /\ Len(mapper.issues) = 2
    /\ mapper.issues[1].created_date = Some("2024-01-01")
    /\ mapper.issues[1].resolved_date = Some("2024-01-05")
    /\ mapper.issues[1].lead_time_days = Some(4)
    /\ mapper.issues[2].created_date = Some("2024-01-05")
    /\ mapper.issues[2].resolved_date = Some("2024-01-01")
    /\ mapper.issues[2].lead_time_days = Null

\* the n-th element of a set of integers in ascending order
NthOf(S, n) == CHOOSE x \in S : Cardinality({y \in S : y < x}) = n - 1

\* the content of the bracketed tag at the very start of summary, trimmed;
\* Null when summary does not start with a tag that holds a name
TagOf(summary) ==
    IF Ch(summary, 1) # "[" THEN Null
    ELSE LET closes == {p \in 2..Len(summary) : Ch(summary, p) = "]"}
         IN  IF closes = {} THEN Null
             ELSE LET content == Trim(SubSeq(summary, 2, NthOf(closes, 1) - 1))
                  IN  IF content = "" THEN Null ELSE Some(content)

\* a known synonym collapsed to its canonical name, any other name unchanged
Canonical(name) == IF name \in DOMAIN systemMappings THEN systemMappings[name] ELSE name

\* C20: the system of an issue depends only on the summary: it is the
\* canonicalized content (trimmed, known synonyms collapsed, any other name
\* unchanged) of the bracketed tag at the very start of the summary, null when
\* the summary is absent or does not start with such a tag; rows with the same
\* summary get the same system whatever their system and component columns hold
C20_SystemFromSummary ==
    MapDone =>
        /\ \A i \in KeyedRows(mapper.rows) :
               LET summary == findColumn(mapper.rows[i], "summary")
               IN  IssueOf(i).system =
                       IF IsNull(summary) \/ IsNull(TagOf(Val(summary))) THEN Null
                       ELSE Some(Canonical(Val(TagOf(Val(summary)))))
        /\ \A i \in KeyedRows(mapper.rows) : \A j \in KeyedRows(mapper.rows) :
               findColumn(mapper.rows[i], "summary") = findColumn(mapper.rows[j], "summary")
                   => IssueOf(i).system = IssueOf(j).system

(***************************************************************************)
(* Claims about compareVersions (checked under SpecVersions)               *)
(***************************************************************************)
VerDone == ver.pc = "done"

\* the maximal runs of digits of s as pairs <<first, last>> of indexes
RunsOf(s) ==
    {r \in (1..Len(s)) \X (1..Len(s)) :
        /\ r[1] <= r[2]
        /\ \A k \in r[1]..r[2] : Ch(s, k) \in Digits
        /\ Ch(s, r[1] - 1) \notin Digits
        /\ Ch(s, r[2] + 1) \notin Digits}

\* the value of the n-th run of s, 0 past the last run
RunValue(s, n) ==
    LET nth == {r \in RunsOf(s) : Cardinality({q \in RunsOf(s) : q[1] < r[1]}) = n - 1}
    IN  IF nth = {} THEN 0
        ELSE LET r == CHOOSE q \in nth : TRUE
             IN  DigitsToNat(SubSeq(s, r[1], r[2]))

Sign(n) == IF n > 0 THEN 1 ELSE IF n < 0 THEN 0 - 1 ELSE 0

\* the sign the first difference of the padded run sequences of a and b gives
RunsCompared(a, b) ==
    LET n == IF Cardinality(RunsOf(a)) > Cardinality(RunsOf(b))
             THEN Cardinality(RunsOf(a)) ELSE Cardinality(RunsOf(b))
        diff == {k \in 1..n : RunValue(a, k) # RunValue(b, k)}
    IN  IF diff = {} THEN 0
        ELSE LET k == CHOOSE d \in diff : \A e \in diff : d <= e
             IN  Sign(RunValue(a, k) - RunValue(b, k))

\* C11: compareVersions(a, b) has the sign of the first difference between the
\* digit runs of a and b read as integers, the shorter sequence padded with
\* zeros; a string without digits is never greater than another version, and
\* compareVersions(b, a) has the opposite sign
C11_CompareVersions ==
    VerDone =>
        /\ Sign(ver.ab) = RunsCompared(ver.a, ver.b)
        /\ Sign(ver.ba) = 0 - Sign(ver.ab)
        /\ RunsOf(ver.a) = {} => ver.ab <= 0
        /\ (ver.a = "Release 2.10.0" /\ ver.b = "Release 2.9.0") => ver.ab > 0
        /\ (ver.a = "1.2" /\ ver.b = "1.2.0") => ver.ab = 0

\* both calls have returned for "Release 2.10.0" against "Release 2.9.0"
C11_Witness ==
    /\ VerDone
    /\ ver.a = "Release 2.10.0" /\ ver.b = "Release 2.9.0"
    /\ ver.ab > 0 /\ ver.ba < 0

(***************************************************************************)
(* Claims about parseCSVLine (checked under SpecCsvLine)                   *)
(***************************************************************************)
LineDone == csvLine.pc = "done"

QuotesBefore(line, p) == Cardinality({j \in 1..(p - 1) : Ch(line, j) = Quote})

\* the commas of line outside double quotes: an even number of quotes precedes
UnquotedCommas(line) ==
    {p \in 1..Len(line) : Ch(line, p) = "," /\ QuotesBefore(line, p) % 2 = 0}

\* the index of the n-th unquoted comma; 0 for n = 0, Len(line) + 1 past the last
CommaAt(line, n) ==
    IF n = 0 THEN 0
    ELSE IF n > Cardinality(UnquotedCommas(line)) THEN Len(line) + 1
    ELSE CHOOSE p \in UnquotedCommas(line) :
             Cardinality({q \in UnquotedCommas(line) : q < p}) = n - 1

\* what the character at p contributes to its field: itself when it is no
\* quote, one literal quote when it is the second of two consecutive quotes
\* inside a quoted field, nothing when it is an enclosing quote
Contribution(line, p) ==
    IF Ch(line, p) # Quote THEN Ch(line, p)
    ELSE IF Ch(line, p - 1) = Quote /\ QuotesBefore(line, p) % 2 = 0 THEN Quote
    ELSE ""

RECURSIVE Unquoted(_, _, _)
Unquoted(line, lo, hi) ==
    IF lo > hi THEN "" ELSE Contribution(line, lo) \o Unquoted(line, lo + 1, hi)

\* C14: parseCSVLine yields one field per stretch between commas outside
\* double quotes (k such commas give k + 1 fields), each field being the
\* stretch with its enclosing quotes removed, two consecutive quotes inside a
\* quoted field turned into one literal quote, then trimmed; the quoted field
\* "a,""b""" parses to the single value a,"b"
C14_SplitOutsideQuotes ==
    LineDone =>
        LET line == csvLine.line
            result == csvLine.result
        IN  /\ Len(result) = Cardinality(UnquotedCommas(line)) + 1
            /\ \A n \in 1..Len(result) :
                   result[n] = Trim(Unquoted(line, CommaAt(line, n - 1) + 1,
                                             CommaAt(line, n) - 1))
            /\ line = "\"a,\"\"b\"\"\"" => result = <<"a,\"b\"">>

\* the line "a,""b""" has been parsed to the single field a,"b"
C14_Witness ==
    /\ LineDone
    /\ csvLine.line = "\"a,\"\"b\"\"\""
    /\ csvLine.result = <<"a,\"b\"">>

(***************************************************************************)
(* Claims about parseCSV (checked under SpecCsv)                           *)
(***************************************************************************)
CsvDone == csvText.pc = "done"

LineBreaks(text) == {p \in 1..Len(text) : Ch(text, p) = "\n"}

\* the index of the n-th line break; 0 for n = 0, Len(text) + 1 past the last
BreakAt(text, n) ==
    IF n = 0 THEN 0
    ELSE IF n > Cardinality(LineBreaks(text)) THEN Len(text) + 1
    ELSE NthOf(LineBreaks(text), n)

\* the n-th line of text, without the carriage return in front of its break
RawLine(text, n) ==
    LET lo == BreakAt(text, n - 1) + 1
        hi == BreakAt(text, n) - 1
    IN  IF hi >= lo /\ hi < Len(text) /\ Ch(text, hi) = "\r"
        THEN SubSeq(text, lo, hi - 1)
        ELSE SubSeq(text, lo, hi)

NonBlank(line) == \E p \in 1..Len(line) : Ch(line, p) \notin WhiteSpace

\* the numbers of the non-blank lines of text
NonBlankLines(text) ==
    {n \in 1..(Cardinality(LineBreaks(text)) + 1) : NonBlank(RawLine(text, n))}

HeaderLine(text) == RawLine(text, NthOf(NonBlankLines(text), 1))

\* the numbers of the non-blank lines after the header line
DataLines(text) == {n \in NonBlankLines(text) : \E m \in NonBlankLines(text) : m < n}

\* the numbers of the data lines that are more than a single empty field
FilledDataLines(text) == {n \in DataLines(text) : parseCSVLine(RawLine(text, n)) # <<"">>}

\* row holds exactly the keys headers, and under every header that occurs
\* once the field of line at that position, '' when line has no such field
RowIsLine(row, headers, line) ==
    LET fields == parseCSVLine(line)
    IN  /\ {row[c].h : c \in 1..Len(row)} = {headers[k] : k \in 1..Len(headers)}
        /\ \A k \in 1..Len(headers) :
               Count(headers, headers[k]) = 1 =>
                   RowGet(row, headers[k]) = Some(IF k <= Len(fields) THEN fields[k] ELSE "")

\* rows are the lines of text numbered kept, one row per line in order
RowsAreLines(rows, text, kept) ==
    /\ Len(rows) = Cardinality(kept)
    /\ \A n \in 1..Len(rows) :
           n <= Cardinality(kept) =>
               RowIsLine(rows[n], UniqueHeaders(parseCSVLine(HeaderLine(text))),
                         RawLine(text, NthOf(kept, n)))

\* C13: for a text with a header line and at least one non-blank data line,
\* parseCSV returns exactly one row per non-blank data line, in input order,
\* the keys of every row being the disambiguated header names (missing fields
\* '', extra fields dropped); with fewer than 2 non-blank lines it returns <<>>
C13_OneRowPerDataLine ==
    CsvDone =>
        IF Cardinality(NonBlankLines(csvText.text)) < 2 THEN csvText.rows = <<>>
        ELSE RowsAreLines(csvText.rows, csvText.text, DataLines(csvText.text))

\* C13 as amended: parseCSV returns exactly one row per non-blank data line
\* that is more than a single empty field (after unquoting and trimming), in
\* input order, the keys of every row being the disambiguated header names
\* (missing fields '', extra fields dropped); with fewer than 2 non-blank lines
\* it returns <<>>
C13_OneRowPerFilledDataLine ==
    CsvDone =>
        IF Cardinality(NonBlankLines(csvText.text)) < 2 THEN csvText.rows = <<>>
        ELSE RowsAreLines(csvText.rows, csvText.text, FilledDataLines(csvText.text))

\* parseCSV has returned three rows for a text with a short line, a long line,
\* blank lines and a line that is one empty quoted field
C13_Witness ==
    /\ CsvDone
    /\ Cardinality(DataLines(csvText.text)) = 4
    /\ Cardinality(FilledDataLines(csvText.text)) = 3
    /\ Len(csvText.rows) = 3
    /\ csvText.rows[1] = <<Cell("a", "1"), Cell("b", "")>>
    /\ csvText.rows[2] = <<Cell("a", "1"), Cell("b", "2")>>

\* C15: the first occurrence of a header name is left unchanged and its k-th
\* occurrence (k >= 2) is renamed name_k; the resulting names are pairwise
\* distinct for every header line, so every row holds one value per column of
\* the header line, none overwritten by another column
C15_DistinctHeaders ==
    (CsvDone /\ Cardinality(NonBlankLines(csvText.text)) >= 2) =>
        LET rawHeaders == parseCSVLine(HeaderLine(csvText.text))
            headers == UniqueHeaders(rawHeaders)
        IN  /\ \A i \in 1..Len(rawHeaders) :
                   LET nth == Count(SubSeq(rawHeaders, 1, i), rawHeaders[i])
                   IN  headers[i] = IF nth = 1 THEN rawHeaders[i]
                                    ELSE rawHeaders[i] \o "_" \o ToString(nth)
            /\ \A i \in 1..Len(headers) : \A j \in 1..Len(headers) :
                   i # j => headers[i] # headers[j]
            /\ \A n \in 1..Len(csvText.rows) : Len(csvText.rows[n]) = Len(headers)

(***************************************************************************)
(* Claims about parseDate (checked under SpecDate)                         *)
(***************************************************************************)
DateDone == date.pc = "done"

MonthNames ==
    <<{"Jan"}, {"Fev", "Feb"}, {"Mar"}, {"Abr", "Apr"}, {"Mai", "May"}, {"Jun"}, {"Jul"},
      {"Ago", "Aug"}, {"Set", "Sep"}, {"Out", "Oct"}, {"Nov"}, {"Dez", "Dec"}>>

\* the month a three-letter name stands for, 0 when it is no month name
MonthOfName(name) ==
    IF \E k \in 1..12 : name \in MonthNames[k]
    THEN CHOOSE k \in 1..12 : name \in MonthNames[k]
    ELSE 0

\* the date and time written in a string of the form D/M/YY HH:MM,
\* D/Mon/YY HH:MM, D/Mon/YYYY HH:MM or D/M/YYYY; Null for any other string
Written(str) ==
    IF ~IsNull(NumericShortMatch(str))
    THEN LET g == Val(NumericShortMatch(str))
         IN  Some([year |-> 2000 + g.year, month |-> g.month, day |-> g.day,
                   hours |-> g.hours, minutes |-> g.minutes])
    ELSE IF ~IsNull(JiraMatch(str))
    THEN LET g == Val(JiraMatch(str))
         IN  Some([year |-> IF Len(g.year) = 2 THEN 2000 + DigitsToNat(g.year)
                            ELSE DigitsToNat(g.year),
                   month |-> MonthOfName(g.month), day |-> g.day,
                   hours |-> g.hours, minutes |-> g.minutes])
    ELSE IF ~IsNull(SlashMatch(str))
    THEN LET g == Val(SlashMatch(str))
         IN  Some([year |-> g.year, month |-> g.month, day |-> g.day,
                   hours |-> 0, minutes |-> 0])
    ELSE IF Len(str) = 10 /\ HasIsoPrefix(str)
    THEN Some([year |-> Num(str, 1, 4), month |-> Num(str, 6, 7), day |-> Num(str, 9, 10),
               hours |-> 0, minutes |-> 0])
    ELSE Null

\* the components form a calendar date and a time of day
ValidWritten(w) ==
    /\ w.month \in 1..12
    /\ w.day >= 1 /\ w.day <= MonthLength(w.year, w.month)
    /\ w.hours <= 23 /\ w.minutes <= 59

WrittenDay(w) ==
    PadLeft(ToString(w.year), 4) \o "-" \o PadLeft(ToString(w.month), 2) \o "-"
        \o PadLeft(ToString(w.day), 2)

\* C16: parseDate returns null for every input that matches one of its formats
\* but whose components do not form a valid calendar date or time (a day past
\* the end of the month, a month outside 1..12, a month name outside the
\* table); it never rolls components over nor substitutes a default month
C16_InvalidDateIsNull ==
    (DateDone /\ ~Falsy(date.dateStr)) =>
        LET w == Written(Val(date.dateStr))
        IN  (~IsNull(w) /\ ~ValidWritten(Val(w))) => IsNull(date.out)

\* C17: for every valid input of the form D/M/YY HH:MM, D/Mon/YY HH:MM,
\* D/Mon/YYYY HH:MM or D/M/YYYY, parseDate returns YYYY-MM-DD with the year,
\* month and day written in the input, whatever the time of day written and
\* whatever the UTC offset of the host
C17_DayAsWritten ==
    (DateDone /\ ~Falsy(date.dateStr)) =>
        LET str == Val(date.dateStr)
            w == Written(str)
        IN  (~IsNull(w) /\ ~HasIsoPrefix(str) /\ ValidWritten(Val(w)))
                => date.out = Some(WrittenDay(Val(w)))

\* C18: parseDate is idempotent on its own output: when parseDate(s) is a day
\* d, parseDate(d) is d
C18_Idempotent ==
    (DateDone /\ ~IsNull(date.out)) => date.again = date.out

\* parseDate has returned a day for a string that is not in the ISO format, on
\* a host west of Greenwich, and has been called on that day
C18_Witness ==
    /\ DateDone
    /\ date.dateStr = Some("17/02/25 23:30")
    /\ date.host.tz < 0
    /\ date.out = Some("2025-02-18")
    /\ date.again = Some("2025-02-18")

(***************************************************************************)
(* processImport: the claims about the write loop                          *)
(***************************************************************************)
\* s begins with p
StartsWith(s, p) == Len(s) >= Len(p) /\ SubSeq(s, 1, Len(p)) = p

\* the positions of attempts whose write the store rejected, and of the
\* errors the loop pushed
FailedAttempts(run) == {n \in 1..Len(run.attempts) : run.attempts[n].outcome = "failed"}
WriteErrors(run) == {n \in 1..Len(run.errors) : StartsWith(run.errors[n], "Erro ao ")}

\* the error at position e reports the write of key
NamesKey(error, kind, key) ==
    StartsWith(error, (IF kind = "update" THEN "Erro ao atualizar " ELSE "Erro ao inserir ")
                          \o key \o ": ")

\* the loop is over
LoopDone(run) == run.pc \in {"recorded", "done"}

\* C21: every mapped issue gets exactly one write attempt, in input order,
\* one at a time (only the last attempt can be pending, and only while the
\* run waits for the store); a failed attempt is recorded as exactly one error
\* naming the key and is not retried, the loop goes on to the issues after
\* it, and what earlier attempts stored stays stored.
C21_OneAttemptPerIssue ==
    \A r \in Runs :
        LET run == imp.run[r]
        IN  /\ Len(run.attempts) <= Len(run.issues)
            /\ \A n \in 1..Len(run.attempts) :
                   /\ run.attempts[n].key = run.issues[n].issue_key
                   /\ run.attempts[n].outcome = "pending"
                          => n = Len(run.attempts) /\ run.pc = "writing"
                   /\ run.attempts[n].outcome = "ok" /\ run.attempts[n].kind = "insert"
                          => run.attempts[n].key \in DOMAIN db.issues
            /\ LoopDone(run) => Len(run.attempts) = Len(run.issues)
            /\ Cardinality(WriteErrors(run)) = Cardinality(FailedAttempts(run))
            /\ \A n \in FailedAttempts(run) :
                   \E e \in WriteErrors(run) :
                       /\ NamesKey(run.errors[e], run.attempts[n].kind, run.attempts[n].key)
                       /\ Cardinality({m \in FailedAttempts(run) : m < n})
                              = Cardinality({f \in WriteErrors(run) : f < e})

\* a run whose first write failed and whose second write was applied
C21_Witness ==
    /\ imp.run[1].pc = "done"
    /\ Len(imp.run[1].attempts) = 2
    /\ imp.run[1].attempts[1].outcome = "failed"
    /\ imp.run[1].attempts[2].outcome = "ok"
    /\ imp.run[1].attempts[2].key \in DOMAIN db.issues

\* C22: the existing keys are read once, before the first write; an issue is
\* sent as an update exactly when its key is in the set that read returned
\* and as an insert otherwise, and an applied update leaves the stored record
\* equal to the mapped issue in every field.
C22_BranchBySnapshot ==
    \A r \in Runs :
        LET run == imp.run[r]
        IN  /\ run.lookups <= 1
            /\ Len(run.attempts) > 0 => run.lookups = 1
            /\ \A n \in 1..Len(run.attempts) :
                   /\ run.attempts[n].kind = "update" <=> run.attempts[n].key \in run.existingKeys
                   /\ run.attempts[n].kind = "insert" <=> run.attempts[n].key \notin run.existingKeys
            /\ LET n == Len(run.attempts)
               IN  n > 0 /\ run.attempts[n].kind = "update" /\ run.attempts[n].outcome = "ok"
                       => /\ run.attempts[n].key \in DOMAIN db.issues
                          /\ db.issues[run.attempts[n].key] = run.issues[n]

\* a finished run that updated the key the store held, replacing what was
\* stored, and inserted the key it did not hold
C22_Witness ==
    /\ imp.run[1].pc = "done"
    /\ imp.run[1].existingKeys = {"K1"}
    /\ Len(imp.run[1].attempts) = 2
    /\ imp.run[1].attempts[1] = [key |-> "K2", kind |-> "insert", outcome |-> "ok"]
    /\ imp.run[1].attempts[2] = [key |-> "K1", kind |-> "update", outcome |-> "ok"]
    /\ db.issues["K1"].summary = Some("b")

(***************************************************************************)
(* processImport: two runs on one store                                    *)
(***************************************************************************)
\* the keys of the issues the run mapped
KeysOf(run) == {run.issues[n].issue_key : n \in 1..Len(run.issues)}

\* the attempts, of any run, to write key k: <<run, position>>
AttemptsFor(k) ==
    {<<r, n>> \in Runs \X (1..MaxPairRows + 1) :
        n <= Len(imp.run[r].attempts) /\ imp.run[r].attempts[n].key = k}

\* the run reports that the store refused to insert k a second time
ReportsDuplicate(run, k) ==
    \E e \in 1..Len(run.errors) :
        StartsWith(run.errors[e], "Erro ao inserir " \o k \o ": duplicate key")

\* no key occurs twice among the issues of the run
NoRepeatedKey(run) ==
    \A m, n \in 1..Len(run.issues) : run.issues[m].issue_key = run.issues[n].issue_key => m = n

\* C23: once two runs that share a key which neither found in its snapshot
\* of the existing keys have finished their loops, every write of that key was
\* sent as an insert, exactly one of them was applied, and a run whose insert
\* was refused reports the refusal as an error; when the runs are executed
\* one at a time and no file repeats a key, no run ever reports a refused
\* insert.
C23_OverlapRejectsInsert ==
    /\ \A k \in {"K1", "K2"} :
           (/\ \A r \in Runs : LoopDone(imp.run[r]) /\ k \in KeysOf(imp.run[r])
                                  /\ k \notin imp.run[r].existingKeys)
           => /\ \A a \in AttemptsFor(k) : imp.run[a[1]].attempts[a[2]].kind = "insert"
              /\ Cardinality({a \in AttemptsFor(k) : imp.run[a[1]].attempts[a[2]].outcome = "ok"}) = 1
              /\ \A a \in AttemptsFor(k) :
                     imp.run[a[1]].attempts[a[2]].outcome = "failed"
                         => ReportsDuplicate(imp.run[a[1]], k)
              /\ \E r \in Runs : ReportsDuplicate(imp.run[r], k)
    /\ (imp.oneAtATime /\ \A r \in Runs : NoRepeatedKey(imp.run[r]))
           => \A r \in Runs, k \in {"K1", "K2"} : ~ReportsDuplicate(imp.run[r], k)

\* two overlapping runs of files that each hold K2 once, both finished: the
\* first inserted it and the second reports the refusal
C23_Witness ==
    /\ ~imp.oneAtATime
    /\ \A r \in Runs : imp.run[r].pc = "done" /\ NoRepeatedKey(imp.run[r])
                          /\ "K2" \in KeysOf(imp.run[r]) \ imp.run[r].existingKeys
    /\ imp.run[1].inserted = 1
    /\ ReportsDuplicate(imp.run[2], "K2")

(***************************************************************************)
(* processImport: what reaches the error list                              *)
(***************************************************************************)
\* the lines of the file of the run that carry a key, in file order: the n-th
\* is the line the n-th mapped issue was made from
KeyedLines(run) ==
    IF IsNull(run.file) THEN <<>> ELSE SelectSeq(Val(run.file).lines, LAMBDA l : l[1] # "")

\* the failures that have occurred so far in the run: lines without a key,
\* dates that are written but were not understood, the lookup of the
\* existing keys, the writes the store rejected, the insert of the history
\* record
FailuresSoFar(run) ==
    (IF run.pc \in {"idle", "reading", "aborted"} THEN 0
       ELSE Len(Val(run.file).lines) - Len(KeyedLines(run)))
    + Cardinality({n \in 1..Len(run.issues) :
                      KeyedLines(run)[n][3] # "" /\ IsNull(run.issues[n].created_date)})
    + (IF run.lookups = 1 /\ run.faults.lookup THEN 1 ELSE 0)
    + Cardinality(FailedAttempts(run))
    + (IF LoopDone(run) /\ run.faults.history THEN 1 ELSE 0)

\* C24: every failure that has occurred during a run is in the run's error
\* list: the list is never shorter than the number of failures so far.
C24_EveryFailureReported == \A r \in Runs : Len(imp.run[r].errors) >= FailuresSoFar(imp.run[r])

(***************************************************************************)
(* Schema resolver: the claims about findColumn and findAllColumnsValues   *)
(***************************************************************************)
ResolverDone == resolver.pc = "done"

\* the ranks, in the alias table of the field, of the aliases that are the
\* header of a column of row holding a value other than ''
PresentRanks(row, columnKey) ==
    {k \in 1..Len(COLUMN_MAPPINGS[columnKey]) :
        \E c \in 1..Len(row) : row[c].h = COLUMN_MAPPINGS[columnKey][k] /\ row[c].v # ""}

\* C25: findColumn returns the value of the column whose header is, character
\* for character, the first alias in table order that the row holds with a
\* value other than '', exactly as the row holds it, and null when the row
\* holds no alias of the field with such a value.
C25_FirstAliasInTableOrder ==
    ResolverDone =>
        LET row == resolver.row
            ranks == PresentRanks(row, resolver.columnKey)
        IN  IF ranks = {} THEN IsNull(resolver.found)
            ELSE \E c \in 1..Len(row) :
                     /\ row[c].h = COLUMN_MAPPINGS[resolver.columnKey][CHOOSE k \in ranks :
                                                                         \A m \in ranks : k <= m]
                     /\ resolver.found = Some(row[c].v)

\* a row that holds a later alias before an earlier one: the earlier alias
\* wins, and its value is returned untrimmed
C25_Witness ==
    /\ ResolverDone
    /\ resolver.columnKey = "status"
    /\ resolver.row = <<Cell("Estado", "a"), Cell("Status", " a")>>
    /\ resolver.found = Some(" a")

\* the columns of row that belong to the field: the header is an alias, or an
\* alias followed by _<digits>, and the trimmed value is not ''
FieldColumns(row, columnKey) ==
    {c \in 1..Len(row) :
        /\ row[c].h \in Aliases(columnKey) \/ BaseHeader(row[c].h) \in Aliases(columnKey)
        /\ Trim(row[c].v) # ""}

\* the first column of the field that holds value v
FirstColumnOf(row, columnKey, v) ==
    CHOOSE c \in FieldColumns(row, columnKey) :
        /\ Trim(row[c].v) = v
        /\ \A d \in FieldColumns(row, columnKey) : Trim(row[d].v) = v => c <= d

\* C26: findAllColumnsValues returns the trimmed values of exactly the columns
\* of the field (header an alias or alias_<digits>, value not blank), each
\* value once, in the order of the columns of the row where each first
\* occurs; no other column contributes.
C26_AllValuesInColumnOrder ==
    ResolverDone =>
        LET row == resolver.row
            all == resolver.all
            cols == FieldColumns(row, resolver.columnKey)
        IN  /\ {all[n] : n \in 1..Len(all)} = {Trim(row[c].v) : c \in cols}
            /\ \A m, n \in 1..Len(all) : all[m] = all[n] => m = n
            /\ \A m, n \in 1..Len(all) :
                   m < n => FirstColumnOf(row, resolver.columnKey, all[m])
                                < FirstColumnOf(row, resolver.columnKey, all[n])

\* a row whose fix-version columns come in the reverse of the alias order
C26_Witness ==
    /\ ResolverDone
    /\ resolver.columnKey = "fix_version"
    /\ resolver.row = <<Cell("Version", "b"), Cell("Fix Version", " a")>>
    /\ resolver.all = <<"b", "a">>

(***************************************************************************)
(* processImport: what the store holds after a run                         *)
(***************************************************************************)
\* C27: after a run in which the store rejected nothing but uniqueness
\* violations, the stored record of every key of the file is the one mapped
\* from the last line of the file with that key.
C27_LastOccurrenceStored ==
    \A r \in Runs :
        LET run == imp.run[r]
        IN  run.pc = "done" /\ run.faults = NoFaults =>
                \A n \in 1..Len(run.issues) :
                    (\A m \in (n + 1)..Len(run.issues) :
                         run.issues[m].issue_key # run.issues[n].issue_key)
                    => /\ run.issues[n].issue_key \in DOMAIN db.issues
                       /\ db.issues[run.issues[n].issue_key] = run.issues[n]

(***************************************************************************)
(* getOpenVersionsAndFilterIssues: a release lookup that fails             *)
(***************************************************************************)
\* C30: when the release lookup of the helper has failed, by throwing or by
\* answering with an error and no data, the helper returns the issues it was
\* given, all of them and in order, and an empty open-release list.
C30_FailedLookupKeepsAll ==
    helper.pc = "done" /\ helper.lookup \in {"error", "throw"}
        => /\ helper.filteredIssues = helper.issues
           /\ helper.openVersions = <<>>

(***************************************************************************)
(* OperationalDetail: what is shown                                        *)
(***************************************************************************)
\* every call of fetchData has returned
AllFetched == \A c \in 1..Len(fetch.calls) : fetch.calls[c].pc \in {"done", "failed"}

\* the latest call of fetchData returned with both answers of the store
LatestFetched ==
    /\ fetch.calls[Len(fetch.calls)].pc = "done"
    /\ fetch.calls[Len(fetch.calls)].lookup = "ok"

\* C28: once the filters have changed and every fetch, the one for the
\* previous filters and the one for the latest, has completed, the issue list
\* and the open-release list shown are those of the latest filters, in
\* whichever order the fetches completed.
C28_LatestFiltersShown ==
    fetch.pc = "mounted" /\ Len(fetch.calls) >= 2 /\ AllFetched /\ LatestFetched
        => /\ fetch.issues = IssuesFor(fetch.filters)
           /\ fetch.openVersionsList = OpenVersionsOf(IssuesFor(fetch.filters), "ok")

\* C29: whenever "Em Aberto" is checked, every issue of the filtered list has
\* a fix_version that is in the open-release list (so the list is empty when
\* no release is open), and the list is empty when "Apenas Fechadas" is
\* checked as well.
C29_OnlyOpenShowsOpen ==
    fetch.pc = "mounted" /\ fetch.onlyOpenVersions
        => /\ \A n \in 1..Len(DetailFiltered(fetch)) :
                  /\ ~IsNull(DetailFiltered(fetch)[n].fix_version)
                  /\ Includes(fetch.openVersionsList, Val(DetailFiltered(fetch)[n].fix_version))
           /\ fetch.onlyClosedVersions => DetailFiltered(fetch) = <<>>

=============================================================================
